---- MODULE Spec2Model ----
(***************************************************************************)
(* Re-Mem: spaced-repetition review and scheduling engine.                 *)
(*                                                                         *)
(* Number representation.  The code computes stability and difficulty in   *)
(* f32.  Stability is modelled as an exact rational <<num, den>> in lowest *)
(* terms (the code multiplies it by 0.5, 1.2, 2.5 and 4.0), difficulty and *)
(* scores as integers counting hundredths (5.0 is 500, 0.15 is 15, 0.7 is  *)
(* 70).  Within the bounds used here the f32 results and the exact ones    *)
(* give the same integer scheduled_days and the same comparisons, and all  *)
(* integers stay far below the i32 range of the code.                      *)
(***************************************************************************)
EXTENDS Integers, Naturals, Sequences, FiniteSets, TLC

VARIABLES
    in_state,     \* update_fsrs_state: argument `current`
    in_rating,    \* update_fsrs_state: argument `rating`
    out_state,    \* update_fsrs_state: returned FsrsState
    fn_pc,        \* "ready" before the function under test ran, "done" after
    in_score,     \* score_to_fsrs_rating: argument `score`
    out_rating,   \* score_to_fsrs_rating: returned rating
    card_fsrs,    \* fsrs_state of one card that is graded repeatedly
    gradings,     \* the ratings applied to that card so far, oldest first
    cards,        \* Card Store: table cards, card id -> None or Some(row)
    review_logs,  \* Review-Log Store: table review_logs, rows in insert order
    events,       \* events handed to EventBus::publish, in publish order
    validate_calls, \* calls received by the AIValidator, in call order
    reqs,         \* per submitReview call: arguments, locals, position, result
    steps,        \* per submitReview call: the steps completed, in order
    last_write,   \* per card: the submitReview call whose update was applied last (0: none)
    val,          \* one OpenAIValidator::validate call: arguments, position, calls made, result
    clock,        \* the service clock's current date, Utc::now().date_naive(), as a day number
    user_stats,   \* table user_stats, user id -> None or Some(row)
    deck_stats,   \* table deck_stats, deck id -> None or Some(row)
    handlers,     \* per StatisticsEventHandler::handle call: event, locals, position, result
    tally,        \* per user: the user_stats updates applied so far (count, correct, dates)
    bus,          \* EventBus: the registered handlers and the handler calls made, in order
    imp,          \* one bulk import: position, locals, result, and its embedding worker
    del           \* per DeleteCardUseCase::execute call: arguments, locals, position, result

fn_vars == <<in_state, in_rating, out_state, fn_pc, in_score, out_rating>>
card_vars == <<card_fsrs, gradings>>
review_vars == <<cards, review_logs, events, validate_calls, reqs, steps, last_write>>
val_vars == <<val>>
stats_vars == <<clock, user_stats, deck_stats, handlers, tally>>
bus_vars == <<bus>>
imp_vars == <<imp>>
del_vars == <<del>>
vars == <<in_state, in_rating, out_state, fn_pc, in_score, out_rating,
          card_fsrs, gradings,
          cards, review_logs, events, validate_calls, reqs, steps, last_write,
          val, clock, user_stats, deck_stats, handlers, tally, bus, imp, del>>

\* the variables an action of one part of the model leaves alone
outside_fn == <<card_vars, review_vars, val_vars, stats_vars, bus_vars, imp_vars, del_vars>>
outside_card == <<fn_vars, review_vars, val_vars, stats_vars, bus_vars, imp_vars, del_vars>>
outside_review == <<fn_vars, card_vars, val_vars, stats_vars, bus_vars, imp_vars, del_vars>>
outside_val == <<fn_vars, card_vars, review_vars, stats_vars, bus_vars, imp_vars, del_vars>>
outside_stats == <<fn_vars, card_vars, val_vars, review_logs, events, validate_calls, reqs, steps, last_write, bus_vars, imp_vars, del_vars>>
outside_imp == <<fn_vars, card_vars, val_vars, review_logs, events, validate_calls, reqs, steps, last_write, clock, user_stats, handlers, tally, bus_vars, del_vars>>

(***************************************************************************)
(* Bounds                                                                  *)
(***************************************************************************)
MaxReps == 3      \* largest reps of an input state of update_fsrs_state
MaxLapses == 2    \* largest lapses of an input state of update_fsrs_state
MaxGradings == 6  \* longest sequence of gradings applied to one card
MaxReviews == 2   \* number of submitReview calls
MaxStrLen == 2    \* longest answer string given to the validator
MaxEvents == 2    \* number of events given to the statistics handler
MaxDay == 2       \* last day the service clock reaches
MaxDeletes == 2   \* delete requests that may be in progress at once

(***************************************************************************)
(* Rationals in lowest terms, for f32 stability                            *)
(***************************************************************************)
RECURSIVE GCD(_, _)
GCD(a, b) ==
    IF b = 0 THEN a ELSE GCD(b, a % b)

Rat(n, d) ==
    LET g == GCD(n, d) IN IF n = 0 THEN <<0, 1>> ELSE <<n \div g, d \div g>>

RatMul(r, n, d) ==
    Rat(r[1] * n, r[2] * d)

RatLe(a, b) ==
    a[1] * b[2] <= b[1] * a[2]

RatMax(a, b) ==
    IF RatLe(a, b) THEN b ELSE a

\* `x as i32` for a non-negative f32 x: truncation toward zero
AsI32(r) ==
    r[1] \div r[2]

IntMax(a, b) ==
    IF a >= b THEN a ELSE b

IntMin(a, b) ==
    IF a <= b THEN a ELSE b

(***************************************************************************)
(* f32 scores in hundredths; NaN is a value no comparison holds of         *)
(***************************************************************************)
NaN == -9999

\* f32 `a >= b`
FGe(a, b) ==
    a # NaN /\ b # NaN /\ a >= b

(***************************************************************************)
(* domain/entities.rs                                                      *)
(***************************************************************************)
CardState == {"New", "Learning", "Review", "Relearning"}

FsrsState_default ==
    [stability |-> <<0, 1>>,
     difficulty |-> 0,
     elapsed_days |-> 0,
     scheduled_days |-> 0,
     reps |-> 0,
     lapses |-> 0,
     state |-> "New",
     last_review |-> "None"]

(***************************************************************************)
(* application/use_cases/review_card.rs: score_to_fsrs_rating              *)
(***************************************************************************)
EasyThreshold == 90
GoodThreshold == 70
HardThreshold == 50

\* variant: exclusive thresholds (`>` for `>=`)
score_to_fsrs_rating_exclusive(score) ==
    IF score # NaN /\ score > EasyThreshold THEN 4
    ELSE IF score # NaN /\ score > GoodThreshold THEN 3
    ELSE IF score # NaN /\ score > HardThreshold THEN 2
    ELSE 1

score_to_fsrs_rating(score) ==
    IF FGe(score, EasyThreshold) THEN 4
    ELSE IF FGe(score, GoodThreshold) THEN 3
    ELSE IF FGe(score, HardThreshold) THEN 2
    ELSE 1

(***************************************************************************)
(* application/use_cases/review_card.rs: update_fsrs_state                 *)
(***************************************************************************)
\* variant: elapsed_days copied from the current state
fsrs_next_from_keeps_elapsed(current) ==
    [stability |-> current.stability,
     difficulty |-> current.difficulty,
     elapsed_days |-> current.elapsed_days,
     scheduled_days |-> current.scheduled_days,
     reps |-> current.reps + 1,
     lapses |-> current.lapses,
     state |-> current.state,
     last_review |-> "Some"]

\* let mut next = FsrsState { .. }
fsrs_next_from(current) ==
    [stability |-> current.stability,
     difficulty |-> current.difficulty,
     elapsed_days |-> 0,
     scheduled_days |-> current.scheduled_days,
     reps |-> current.reps + 1,
     lapses |-> current.lapses,
     state |-> current.state,
     last_review |-> "Some"]

\* variant: no initialisation on the first review
fsrs_first_review_skipped(current, next) ==
    next

\* if current.reps == 0 { next.stability = 1.0; next.difficulty = 5.0; }
fsrs_first_review(current, next) ==
    IF current.reps = 0
    THEN [next EXCEPT !.stability = <<1, 1>>, !.difficulty = 500]
    ELSE next

\* variant: Learning kept for one review more
fsrs_progress_state_late(next) ==
    IF next.reps <= 2 THEN "Learning" ELSE "Review"

\* the state a Hard or Good rating leaves the card in
fsrs_progress_state(next) ==
    IF next.reps <= 1 THEN "Learning" ELSE "Review"

\* 1 => { .. }   Again
fsrs_again(next) ==
    [next EXCEPT !.lapses = next.lapses + 1,
                 !.stability = RatMax(RatMul(next.stability, 1, 2), <<1, 10>>),
                 !.difficulty = IntMin(next.difficulty + 100, 1000),
                 !.scheduled_days = 1,
                 !.state = "Relearning"]

\* variant: Hard counted as a lapse
fsrs_hard_counts_lapse(next) ==
    LET s == RatMul(next.stability, 6, 5) IN
    [next EXCEPT !.lapses = next.lapses + 1,
                 !.stability = s,
                 !.difficulty = IntMin(next.difficulty + 15, 1000),
                 !.scheduled_days = IntMax(AsI32(RatMul(s, 6, 5)), 1),
                 !.state = IF next.reps <= 1 THEN "Learning" ELSE "Review"]

\* 2 => { .. }   Hard
fsrs_hard(next) ==
    LET s == RatMul(next.stability, 6, 5) IN
    [next EXCEPT !.stability = s,
                 !.difficulty = IntMin(next.difficulty + 15, 1000),
                 !.scheduled_days = IntMax(AsI32(RatMul(s, 6, 5)), 1),
                 !.state = fsrs_progress_state(next)]

\* variant: scheduled_days of Good without the floor of one day
fsrs_good_no_floor(next) ==
    LET s == RatMul(next.stability, 5, 2) IN
    [next EXCEPT !.stability = s,
                 !.scheduled_days = AsI32(RatMul(s, 5, 2)),
                 !.state = IF next.reps <= 1 THEN "Learning" ELSE "Review"]

\* 3 => { .. }   Good
fsrs_good(next) ==
    LET s == RatMul(next.stability, 5, 2) IN
    [next EXCEPT !.stability = s,
                 !.scheduled_days = IntMax(AsI32(RatMul(s, 5, 2)), 1),
                 !.state = fsrs_progress_state(next)]

\* variant: Easy counted as a lapse
fsrs_easy_counts_lapse(next) ==
    LET s == RatMul(next.stability, 4, 1) IN
    [next EXCEPT !.lapses = next.lapses + 1,
                 !.stability = s,
                 !.difficulty = IntMax(next.difficulty - 15, 100),
                 !.scheduled_days = IntMax(AsI32(RatMul(s, 4, 1)), 1),
                 !.state = "Review"]

\* 4 => { .. }   Easy
fsrs_easy(next) ==
    LET s == RatMul(next.stability, 4, 1) IN
    [next EXCEPT !.stability = s,
                 !.difficulty = IntMax(next.difficulty - 15, 100),
                 !.scheduled_days = IntMax(AsI32(RatMul(s, 4, 1)), 1),
                 !.state = "Review"]

\* _ => { .. }   "Default to Good"
fsrs_default(next) ==
    LET s == RatMul(next.stability, 5, 2) IN
    [next EXCEPT !.stability = s,
                 !.scheduled_days = IntMax(AsI32(RatMul(s, 5, 2)), 1),
                 !.state = "Review"]

\* match rating { .. }
fsrs_match_rating(next, rating) ==
    CASE rating = 1 -> fsrs_again(next)
      [] rating = 2 -> fsrs_hard(next)
      [] rating = 3 -> fsrs_good(next)
      [] rating = 4 -> fsrs_easy(next)
      [] OTHER -> fsrs_default(next)

update_fsrs_state(current, rating) ==
    fsrs_match_rating(fsrs_first_review(current, fsrs_next_from(current)), rating)

(***************************************************************************)
(* Input domains of the pure functions                                     *)
(***************************************************************************)
StabilityInputs == {<<0, 1>>, <<1, 10>>, <<3, 20>>, <<1, 1>>, <<5, 2>>}

DifficultyInputs == {0, 100, 110, 500, 1000}

FsrsInputs ==
    [stability : StabilityInputs,
     difficulty : DifficultyInputs,
     elapsed_days : {0, 3},
     scheduled_days : {0, 6},
     reps : 0..MaxReps,
     lapses : 0..MaxLapses,
     state : CardState,
     last_review : {"None", "Some"}]

\* 0 and 5 stand for the ratings outside 1..4
RatingInputs == 0..5

ScoreInputs == (-5..105) \cup {NaN}

(***************************************************************************)
(* Review Orchestrator: ReviewCardUseCase::execute and its collaborators   *)
(***************************************************************************)
None == <<>>
Some(x) == <<x>>

CardIds == {"c1", "c2"}
UserIds == {"u1", "u2"}
\* one answer that matches "a" after trimming and lowercasing, one that does not
UserAnswers == {<<" ", "A">>, <<"b">>}
Reqs == 1..MaxReviews

\* the calls made: the owner's matching and non-matching answer to c1, another
\* user's answer to c1, and an answer to the absent c2
ReviewInputs ==
    {input \in [card_id : CardIds, user_id : UserIds, user_answer : UserAnswers] :
        /\ input.user_id = "u2" => (input.card_id = "c1" /\ input.user_answer = <<"b">>)
        /\ input.card_id = "c2" => input.user_answer = <<"b">>}

\* the request handlers that can run execute at the same time
HandlerPool == {"h1", "h2"}

\* Card::new (timestamps are not modelled)
Card_new(id, user_id, question, answer) ==
    [id |-> id,
     user_id |-> user_id,
     deck_id |-> None,
     question |-> question,
     answer |-> answer,
     answer_embedding |-> None,
     fsrs_state |-> FsrsState_default]

\* ValidationMethod::as_str
ValidationMethod_as_str(method) ==
    CASE method = "Exact" -> "exact"
      [] method = "Embedding" -> "embedding"
      [] method = "Llm" -> "llm"

\* ReviewLog::new (id is unique per call; created_at is not modelled)
ReviewLog_new(id, card_id, user_id, user_answer, expected_answer, ai_score, validation_method, fsrs_rating) ==
    [id |-> id,
     card_id |-> card_id,
     user_id |-> user_id,
     user_answer |-> user_answer,
     expected_answer |-> expected_answer,
     ai_score |-> ai_score,
     validation_method |-> validation_method,
     fsrs_rating |-> fsrs_rating]

\* PgReviewLogRepository::create: the columns of the INSERT
review_log_row(log) ==
    [id |-> log.id,
     card_id |-> log.card_id,
     user_id |-> log.user_id,
     user_answer |-> log.user_answer,
     ai_score |-> log.ai_score,
     fsrs_rating |-> log.fsrs_rating,
     validation_method |-> log.validation_method]

\* variant: a write that carries no more repetitions than the stored row is dropped
card_repository_update_if_newer(table, card) ==
    IF table[card.id] = None \/ table[card.id][1].fsrs_state.reps >= card.fsrs_state.reps
    THEN table
    ELSE [table EXCEPT ![card.id] =
             Some([table[card.id][1] EXCEPT !.question = card.question,
                                            !.answer = card.answer,
                                            !.fsrs_state = card.fsrs_state])]

\* variant: the whole Card written, embedding included
card_repository_update_whole_row(table, card) ==
    IF table[card.id] = None
    THEN table
    ELSE [table EXCEPT ![card.id] = Some(card)]

\* PgCardRepository::update: UPDATE cards SET question, answer, fsrs_state
\* WHERE id; a missing row is left missing
card_repository_update(table, card) ==
    IF table[card.id] = None
    THEN table
    ELSE [table EXCEPT ![card.id] =
             Some([table[card.id][1] EXCEPT !.question = card.question,
                                            !.answer = card.answer,
                                            !.fsrs_state = card.fsrs_state])]

\* variant: the row written although the statement reports a failure
card_update_result_written_on_error(table, card, db_ok) ==
    [ok |-> db_ok, written |-> table[card.id] # None, table |-> card_repository_update(table, card)]

\* self.card_repository.update(&card).await: the statement either runs
\* (Ok, row written when it exists) or fails (Err, table untouched)
card_update_result(table, card, db_ok) ==
    IF db_ok
    THEN [ok |-> TRUE, written |-> table[card.id] # None, table |-> card_repository_update(table, card)]
    ELSE [ok |-> FALSE, written |-> FALSE, table |-> table]

\* DomainEvent::CardReviewed; req names the publishing call (not in the code)
CardReviewed(card_id, user_id, score, rating, req) ==
    [type |-> "CardReviewed",
     card_id |-> card_id,
     user_id |-> user_id,
     score |-> score,
     rating |-> rating,
     req |-> req]

ReviewResult(card_id, ai_score, fsrs_rating, validation_method, next_review_in_days) ==
    [card_id |-> card_id,
     ai_score |-> ai_score,
     fsrs_rating |-> fsrs_rating,
     validation_method |-> validation_method,
     next_review_in_days |-> next_review_in_days]

Ok(value) == [ok |-> TRUE, error |-> "", value |-> Some(value)]
Err(msg) == [ok |-> FALSE, error |-> msg, value |-> None]

(***************************************************************************)
(* infrastructure/ai_validator.rs: OpenAIValidator (cascading validator)   *)
(* Strings are sequences of characters.                                    *)
(***************************************************************************)
Chars == {" ", "a", "A", "b"}

\* char::to_lowercase on the characters used here
char_to_lowercase(c) ==
    IF c = "A" THEN "a" ELSE c

\* str::to_lowercase
to_lowercase(str) ==
    [i \in 1..Len(str) |-> char_to_lowercase(str[i])]

RECURSIVE trim_start(_)
trim_start(str) ==
    IF str # <<>> /\ Head(str) = " " THEN trim_start(Tail(str)) ELSE str

RECURSIVE trim_end(_)
trim_end(str) ==
    IF str # <<>> /\ str[Len(str)] = " "
    THEN trim_end(SubSeq(str, 1, Len(str) - 1))
    ELSE str

\* str::trim
trim(str) ==
    trim_end(trim_start(str))

\* variant: comparison without trimming and lowercasing
check_exact_match_raw(expected, user_answer) ==
    IF expected = user_answer THEN Some(100) ELSE None

\* OpenAIValidator::check_exact_match
check_exact_match(expected, user_answer) ==
    IF to_lowercase(trim(expected)) = to_lowercase(trim(user_answer))
    THEN Some(100)
    ELSE None

\* OpenAIValidator::new: embedding_threshold: 0.85
embedding_threshold == 85

\* the literal 0.6 of the borderline arm of validate
borderline_threshold == 60

\* what the embeddings endpoint may answer: an error, or `vectors` embeddings
\* whose cosine is `cosine` when their lengths agree and neither is zero
EmbeddingResponse(kind, vectors, same_len, zero_magnitude, cosine) ==
    [kind |-> kind, vectors |-> vectors, same_len |-> same_len,
     zero_magnitude |-> zero_magnitude, cosine |-> cosine]

EmbeddingError == EmbeddingResponse("error", 0, TRUE, FALSE, 0)

EmbeddingCosine(cosine) == EmbeddingResponse("ok", 2, TRUE, FALSE, cosine)

EmbeddingResponses ==
    {EmbeddingError,
     EmbeddingResponse("ok", 1, TRUE, FALSE, 0),
     EmbeddingResponse("ok", 2, FALSE, FALSE, 90),
     EmbeddingResponse("ok", 2, TRUE, TRUE, 0)}
    \cup {EmbeddingCosine(c) : c \in {-20, 59, 60, 84, 85, 100, NaN}}

\* cosine_similarity
cosine_similarity(resp) ==
    IF ~resp.same_len THEN 0
    ELSE IF resp.zero_magnitude THEN 0
    ELSE resp.cosine

\* variant: a response of two embeddings treated as too short
check_embedding_similarity_needs_three(resp) ==
    IF resp.kind = "error" THEN Err("embedding error")
    ELSE IF resp.vectors <= 2 THEN Ok(0)
    ELSE Ok(cosine_similarity(resp))

\* OpenAIValidator::check_embedding_similarity
check_embedding_similarity(resp) ==
    IF resp.kind = "error" THEN Err("embedding error")
    ELSE IF resp.vectors < 2 THEN Ok(0)
    ELSE Ok(cosine_similarity(resp))

\* what the chat endpoint may answer: an error, no content, or a text that
\* parses as the f32 `value` when `numeric`
LlmReply(kind, numeric, value) ==
    [kind |-> kind, numeric |-> numeric, value |-> value]

LlmError == LlmReply("error", FALSE, 0)

LlmScore(value) == LlmReply("ok", TRUE, value)

LlmReplies ==
    {LlmError,
     LlmReply("no_content", FALSE, 0),
     LlmReply("ok", FALSE, 0)}
    \cup {LlmScore(v) : v \in {-50, 0, 30, 55, 75, 100, 150, NaN}}

\* f32::clamp(0.0, 1.0)
clamp_unit(x) ==
    IF x = NaN THEN NaN
    ELSE IF x < 0 THEN 0
    ELSE IF x > 100 THEN 100
    ELSE x

\* OpenAIValidator::check_llm_validation
check_llm_validation(reply) ==
    IF reply.kind = "error" THEN Err("openai error")
    ELSE IF reply.kind = "no_content" THEN Err("No response from LLM")
    ELSE Ok(clamp_unit(IF reply.numeric THEN reply.value ELSE 0))

ValidationResult(score, method) ==
    [score |-> score, method |-> method]

\* variant: an embedding score in the borderline band is returned as it is
embedding_accepts_borderline(similarity) ==
    similarity.ok /\ FGe(similarity.value[1], borderline_threshold)

\* validate, Strategy 2: the arm `Ok(score) if score >= self.embedding_threshold`
embedding_accepts(similarity) ==
    similarity.ok /\ FGe(similarity.value[1], embedding_threshold)

\* variant: a failed LLM call scored 0.0 instead of propagated
llm_result_or_zero(judged) ==
    Ok(ValidationResult(IF judged.ok THEN judged.value[1] ELSE 0, "Llm"))

\* validate, Strategy 3: check_llm_validation(..).await? and the Llm result
llm_result(judged) ==
    IF judged.ok
    THEN Ok(ValidationResult(judged.value[1], "Llm"))
    ELSE judged

\* OpenAIValidator::validate, given what the two endpoints answer when asked
OpenAIValidator_validate(expected_answer, user_answer, emb, llm) ==
    LET exact == check_exact_match(expected_answer, user_answer)
        similarity == check_embedding_similarity(emb)
    IN IF exact # None
       THEN Ok(ValidationResult(exact[1], "Exact"))
       ELSE IF embedding_accepts(similarity)
       THEN Ok(ValidationResult(similarity.value[1], "Embedding"))
       ELSE llm_result(check_llm_validation(llm))

\* validate reaches Strategy 2 / Strategy 3
embedding_invoked(expected_answer, user_answer) ==
    check_exact_match(expected_answer, user_answer) = None

llm_invoked(expected_answer, user_answer, emb) ==
    /\ embedding_invoked(expected_answer, user_answer)
    /\ ~embedding_accepts(check_embedding_similarity(emb))

\* the endpoint answers drawn while a review is orchestrated
ReviewEmbeddingResponses == {EmbeddingError, EmbeddingCosine(95)}
ReviewLlmReplies == {LlmError, LlmScore(75)}

(***************************************************************************)
(* FallbackValidator.  Its score is kept as an exact fraction of           *)
(* hundredths, Rat(100 * n, d) for n / d (1.0 is <<100, 1>>).              *)
(***************************************************************************)
\* str.split_whitespace().collect::<HashSet<&str>>(): the maximal runs of
\* characters other than whitespace
split_whitespace(str) ==
    {SubSeq(str, p[1], p[2]) :
        p \in {q \in (1..Len(str)) \X (1..Len(str)) :
                  /\ q[1] <= q[2]
                  /\ \A k \in q[1]..q[2] : str[k] # " "
                  /\ q[1] = 1 \/ str[q[1] - 1] = " "
                  /\ q[2] = Len(str) \/ str[q[2] + 1] = " "}}

\* variant: the words in common over the expected words
overlap_of_expected(expected_words, actual_words) ==
    IF Cardinality(expected_words) > 0
    THEN Rat(100 * Cardinality(expected_words \cap actual_words), Cardinality(expected_words))
    ELSE Rat(0, 1)

\* let jaccard = if union > 0.0 { intersection / union } else { 0.0 }
jaccard(expected_words, actual_words) ==
    IF Cardinality(expected_words \cup actual_words) > 0
    THEN Rat(100 * Cardinality(expected_words \cap actual_words),
             Cardinality(expected_words \cup actual_words))
    ELSE Rat(0, 1)

\* FallbackValidator::validate
FallbackValidator_validate(expected_answer, user_answer) ==
    LET expected == to_lowercase(trim(expected_answer))
        actual == to_lowercase(trim(user_answer))
    IN IF expected = actual
       THEN Ok(ValidationResult(Rat(100, 1), "Exact"))
       ELSE Ok(ValidationResult(jaccard(split_whitespace(expected), split_whitespace(actual)),
                               "Exact"))

(***************************************************************************)
(* One OpenAIValidator::validate call, step by step                        *)
(***************************************************************************)
\* every string of at most n characters
Strings(n) == UNION {[1..k -> Chars] : k \in 0..n}

ValIdle ==
    val = [pc |-> "idle",
           expected_answer |-> <<>>,
           user_answer |-> <<>>,
           emb |-> None,
           llm |-> None,
           embedding_calls |-> 0,
           llm_calls |-> 0,
           result |-> None]

(***************************************************************************)
(* Statistics: entities, infrastructure/repositories.rs (user_stats and    *)
(* deck_stats), infrastructure/event_handlers.rs                           *)
(***************************************************************************)
DeckIds == {"d1"}
Days == 1..MaxDay
Handlers == 1..MaxEvents

\* UserStats::new (timestamps are not modelled)
UserStats_new ==
    [total_reviews |-> 0,
     correct_reviews |-> 0,
     days_studied |-> 0,
     last_active_date |-> None]

\* DeckStats::new
DeckStats_new(user_id) ==
    [user_id |-> user_id,
     total_cards |-> 0,
     total_reviews |-> 0,
     correct_reviews |-> 0,
     days_studied |-> 0,
     last_active_date |-> None]

\* DomainEvent::CardCreated
CardCreated(card_id, user_id) ==
    [type |-> "CardCreated", card_id |-> card_id, user_id |-> user_id]

\* the literal 0.7 of `let is_correct = score >= 0.7`
correct_threshold == 70

\* the scores the handled events carry: the threshold and the value below it
EventScores == {correct_threshold, correct_threshold - 1}

\* the events a handler may be given; c1 has no deck, c2 belongs to d1
StatsEvents ==
    {CardReviewed(c, "u1", sc, score_to_fsrs_rating(sc), 0) : c \in CardIds, sc \in EventScores}
    \cup {CardReviewed("c1", "u2", correct_threshold, score_to_fsrs_rating(correct_threshold), 0)}
    \cup {CardCreated(c, "u1") : c \in CardIds}

\* variant: a row without last_active_date counted as no new day
is_new_day_or_false(last_active_date, review_date) ==
    IF last_active_date = None THEN FALSE ELSE last_active_date[1] # review_date

\* last_date != review_date, unwrap_or(true)
is_new_day(last_active_date, review_date) ==
    IF last_active_date = None THEN TRUE ELSE last_active_date[1] # review_date

\* variant: the counters written back from the row the handler read
stats_row_from_snapshot(row, read, is_correct, new_day, review_date) ==
    [row EXCEPT !.total_reviews = read.total_reviews + 1,
                !.correct_reviews = read.correct_reviews + (IF is_correct THEN 1 ELSE 0),
                !.days_studied = read.days_studied + (IF new_day THEN 1 ELSE 0),
                !.last_active_date = Some(review_date)]

\* UPDATE .. SET total_reviews = total_reviews + 1, correct_reviews =
\* correct_reviews + $1, days_studied = days_studied + $2, last_active_date = $3
\* (`read`, the row the caller selected, is not used by the statement)
stats_row_after_review(row, read, is_correct, new_day, review_date) ==
    [row EXCEPT !.total_reviews = row.total_reviews + 1,
                !.correct_reviews = row.correct_reviews + (IF is_correct THEN 1 ELSE 0),
                !.days_studied = row.days_studied + (IF new_day THEN 1 ELSE 0),
                !.last_active_date = Some(review_date)]

\* .. WHERE user_id = $4 / WHERE deck_id = $4: no row, no change
stats_update_after_review(table, key, read, is_correct, new_day, review_date) ==
    IF table[key] = None
    THEN table
    ELSE [table EXCEPT ![key] =
             Some(stats_row_after_review(table[key][1], read, is_correct, new_day, review_date))]

\* INSERT INTO user_stats / deck_stats: the key column admits one row per key
stats_insert(table, key, row) ==
    IF table[key] = None
    THEN [ok |-> TRUE, error |-> "", table |-> [table EXCEPT ![key] = Some(row)]]
    ELSE [ok |-> FALSE, error |-> "unique violation", table |-> table]

\* UPDATE deck_stats SET total_cards = total_cards + 1 WHERE deck_id = $1
increment_card_count(table, deck_id) ==
    IF table[deck_id] = None
    THEN table
    ELSE [table EXCEPT ![deck_id] =
             Some([table[deck_id][1] EXCEPT !.total_cards = table[deck_id][1].total_cards + 1])]

IdleHandler ==
    [pc |-> "idle",
     event |-> CardCreated("c1", "u1"),
     is_correct |-> FALSE,
     review_date |-> 0,
     current_stats |-> None,
     deck_id |-> None,
     result |-> None]

\* what was done to one user's row (not in the code): the row at the start,
\* the UPDATEs applied, those of correct reviews, their review dates, and
\* whether an UPDATE met a row changed since its handler read it
NoTally == [row0 |-> None, updates |-> 0, correct |-> 0, dates |-> {}, overlapped |-> FALSE]

\* a row as some earlier reviews, the last of them on day 1, left it
UserStats_reviewed ==
    [total_reviews |-> 3,
     correct_reviews |-> 2,
     days_studied |-> 2,
     last_active_date |-> Some(1)]

StatsIdle ==
    /\ clock = 1
    /\ user_stats = [u \in UserIds |-> None]
    /\ deck_stats = [d \in DeckIds |-> None]
    /\ handlers = [h \in Handlers |-> IdleHandler]
    /\ tally = [u \in UserIds |-> NoTally]

(***************************************************************************)
(* Event bus.  shared/event_bus.rs holds a placeholder (no registry, a     *)
(* publish that only logs) whose generic traits do not fit the callers:    *)
(* main registers a handler, the use cases publish DomainEvent enum        *)
(* values.  The registry and the dispatch are modelled from the system     *)
(* description: in-process, handlers kept in registration order, publish   *)
(* calling each of them in turn, a handler's error logged and dropped.     *)
(***************************************************************************)
\* the handlers main may register: the statistics handler and one more
Subscribers == {"StatisticsEventHandler", "OtherHandler"}

\* EventBus::new(); registered_at (not in the bus) is the number of events
\* published before the handler was registered, -1 while it is not
NoBus ==
    [subscribers |-> <<>>,
     calls |-> <<>>,
     registered_at |-> [s \in Subscribers |-> -1]]

BusIdle == bus = NoBus

\* event_bus.register_handler(handler)
EventBus_register_handler(subscribers, handler) == Append(subscribers, handler)

\* variant: delivery stops at the first handler that fails
EventBus_publish_until_failure(subscribers, event, failing) ==
    LET reached == {j \in 1..Len(subscribers) :
                       \A k \in 1..(j - 1) : subscribers[k] \notin failing}
    IN [result |-> Ok("unit"),
        calls |-> [i \in 1..Cardinality(reached) |->
                      [event |-> event, handler |-> subscribers[i], ok |-> subscribers[i] \notin failing]]]

\* EventBus::publish(event): handle(event) of each registered handler, one
\* after the other; `failing` are the handlers whose handle returns Err
EventBus_publish(subscribers, event, failing) ==
    [result |-> Ok("unit"),
     calls |-> [i \in 1..Len(subscribers) |->
                   [event |-> event, handler |-> subscribers[i], ok |-> subscribers[i] \notin failing]]]

\* variant: a failed delivery returned to the caller of execute
execute_result_of_publish(published, review_result) ==
    IF published.result.ok /\ \A i \in 1..Len(published.calls) : published.calls[i].ok
    THEN Ok(review_result)
    ELSE Err("event handler failed")

\* self.event_bus.publish(..).await; Ok(ReviewResult { .. }): what publish
\* returned is dropped
execute_result(published, review_result) == Ok(review_result)

(***************************************************************************)
(* Bulk import (ImportTsvUseCase, ImportAnkiUseCase) and the embedding     *)
(* worker it spawns                                                        *)
(***************************************************************************)
\* the ids Card::new gives the parsed cards, in file order, and their backs
ImportCardIds == <<"c1", "c2">>
ImportAnswers == <<<<"a">>, <<"b">>>>

\* cards.push(Card::new(user_id, front, back).with_deck(deck_id)), n times
import_cards(n, user_id, deck_id) ==
    [i \in 1..n |->
        [Card_new(ImportCardIds[i], user_id, "front", ImportAnswers[i]) EXCEPT
            !.deck_id = Some(deck_id)]]

\* ImportResult { cards_imported, cards_skipped }
ImportResult(cards_imported, cards_skipped) ==
    [cards_imported |-> cards_imported, cards_skipped |-> cards_skipped]

\* PgCardRepository::bulk_create: the INSERTs of one committed transaction
bulk_create(table, new_cards) ==
    [c \in DOMAIN table |->
        IF \E i \in 1..Len(new_cards) : new_cards[i].id = c
        THEN Some(new_cards[CHOOSE i \in 1..Len(new_cards) : new_cards[i].id = c])
        ELSE table[c]]

\* UPDATE deck_stats SET total_cards = total_cards + $1 WHERE deck_id = $2
add_to_card_count(table, deck_id, count) ==
    IF table[deck_id] = None
    THEN table
    ELSE [table EXCEPT ![deck_id] =
             Some([table[deck_id][1] EXCEPT !.total_cards = table[deck_id][1].total_cards + count])]

\* the vector the embedding service returns for a text
generate_embedding(text) == <<"embedding", text>>

\* UPDATE cards SET answer_embedding = $1 WHERE id = $2
update_embedding(table, id, embedding) ==
    IF table[id] = None
    THEN table
    ELSE [table EXCEPT ![id] = Some([table[id][1] EXCEPT !.answer_embedding = Some(embedding)])]

\* no worker spawned; generate_calls, update_calls and warnings (not in the
\* code) list the calls the task made, each with its outcome, and the cards
\* it logged a warning for
IdleWorker ==
    [pc |-> "idle",
     awaited |-> FALSE,
     tasks |-> <<>>,
     next |-> 1,
     embedding |-> None,
     generate_calls |-> <<>>,
     update_calls |-> <<>>,
     warnings |-> <<>>]

\* variant: a pair that failed is tried once more
worker_retry_once(worker, succeeded) ==
    IF ~succeeded
       /\ Cardinality({i \in 1..Len(worker.warnings) :
                          worker.warnings[i] = worker.tasks[worker.next][1]}) = 1
    THEN [worker EXCEPT !.pc = "generate_embedding", !.embedding = None]
    ELSE IF worker.next < Len(worker.tasks)
    THEN [worker EXCEPT !.pc = "generate_embedding", !.next = worker.next + 1, !.embedding = None]
    ELSE [worker EXCEPT !.pc = "done", !.next = worker.next + 1, !.embedding = None]

\* for (card_id, answer_text) in tasks: the next pair whatever became of
\* this one, the end of the task after the last
worker_continue(worker, succeeded) ==
    IF worker.next < Len(worker.tasks)
    THEN [worker EXCEPT !.pc = "generate_embedding", !.next = worker.next + 1, !.embedding = None]
    ELSE [worker EXCEPT !.pc = "done", !.next = worker.next + 1, !.embedding = None]

\* variant: the spawned task awaited by its spawner
spawn_embedding_worker_joined(tasks) ==
    [IdleWorker EXCEPT !.pc = "generate_embedding", !.awaited = TRUE, !.tasks = tasks]

\* tokio::spawn(async move { for (card_id, answer_text) in tasks { .. } });
\* the JoinHandle is dropped, nobody awaits the task
spawn_embedding_worker(tasks) ==
    [IdleWorker EXCEPT !.pc = "generate_embedding", !.tasks = tasks]

\* no import requested; add_calls (not in the code) counts the bulk-add calls
IdleImport ==
    [pc |-> "idle",
     user_id |-> "u1",
     deck_id |-> "d1",
     cards |-> <<>>,
     skipped |-> 0,
     card_ids |-> <<>>,
     imported |-> 0,
     add_calls |-> 0,
     result |-> None,
     worker |-> IdleWorker]

ImportIdle == imp = IdleImport

(***************************************************************************)
(* DeleteCardUseCase::execute (CardService::delete_card has the same       *)
(* statements): find_by_id, the ownership match, CardRepository::delete.   *)
(***************************************************************************)
DeleteReqs == 1..MaxDeletes

\* DELETE FROM cards WHERE id = $1
card_repository_delete(table, id) == [table EXCEPT ![id] = None]

\* variant: the match without its ownership guard
delete_card_match_any_user(row, user_id) ==
    IF row # None
    THEN [ok |-> TRUE, error |-> "", value |-> row]
    ELSE Err("NotFound")

\* match card { Some(c) if c.user_id == user_id => delete,
\*              Some(_) => Err(AuthorizationError), None => Err(NotFound) }
delete_card_match(row, user_id) ==
    IF row # None /\ row[1].user_id = user_id
    THEN [ok |-> TRUE, error |-> "", value |-> row]
    ELSE IF row # None
         THEN Err("AuthorizationError")
         ELSE Err("NotFound")

IdleDelete ==
    [pc |-> "idle",
     card_id |-> "c1",
     user_id |-> "u1",
     card |-> None,
     result |-> None,
     found |-> None]           \* Some(what find_by_id returned) (not in the code)

DeleteIdle == del = [d \in DeleteReqs |-> IdleDelete]

IdleReq ==
    [pc |-> "idle",
     card_id |-> "c1",
     user_id |-> "u1",
     user_answer |-> <<>>,
     card |-> None,
     validation |-> None,
     fsrs_rating |-> 0,
     result |-> None,
     stored_before |-> None,   \* the card's row when the call started (not in the code)
     loaded |-> None,          \* the card as find_by_id returned it (not in the code)
     concurrent |-> FALSE]     \* a call for the same card was in progress at the start (not in the code)

\* variant: the review log written before the card
execute_next_log_first(pc) ==
    CASE pc = "find_by_id" -> "validate"
      [] pc = "validate" -> "update_fsrs_state"
      [] pc = "update_fsrs_state" -> "create_review_log"
      [] pc = "create_review_log" -> "update"
      [] pc = "update" -> "publish"
      [] pc = "publish" -> "done"

\* ReviewCardUseCase::execute: the statement that follows a statement that
\* did not return early
execute_next(pc) ==
    CASE pc = "find_by_id" -> "validate"
      [] pc = "validate" -> "update_fsrs_state"
      [] pc = "update_fsrs_state" -> "update"
      [] pc = "update" -> "create_review_log"
      [] pc = "create_review_log" -> "publish"
      [] pc = "publish" -> "done"

\* variant: a missing card replaced by a new one instead of an error
find_card_or_new(row, card_id, user_id) ==
    IF row = None
    THEN [ok |-> TRUE, error |-> "", value |-> Some(Card_new(card_id, user_id, "q", "a"))]
    ELSE [ok |-> TRUE, error |-> "", value |-> row]

\* variant: a card of another user treated as absent
find_card_of_owner(row, card_id, user_id) ==
    IF row = None \/ row[1].user_id # user_id
    THEN Err("Card not found")
    ELSE [ok |-> TRUE, error |-> "", value |-> row]

\* .find_by_id(card_id).await?.context("Card not found")?
find_card_or_error(row, card_id, user_id) ==
    IF row = None
    THEN Err("Card not found")
    ELSE [ok |-> TRUE, error |-> "", value |-> row]

\* submit_intelligent_review: the HTTP status answered for what execute
\* returned, Ok => StatusCode::CREATED, Err(err) => INTERNAL_SERVER_ERROR
submit_intelligent_review(result) == IF result.ok THEN 201 ELSE 500

\* the state in which no review was submitted; the store holds card c1,
\* newly created by u1, and no card c2
ReviewIdle ==
    /\ cards = [c \in CardIds |->
                   IF c = "c1" THEN Some(Card_new("c1", "u1", "2+2?", <<"a">>)) ELSE None]
    /\ review_logs = <<>>
    /\ events = <<>>
    /\ validate_calls = <<>>
    /\ reqs = [r \in Reqs |-> IdleReq]
    /\ steps = [r \in Reqs |-> <<>>]
    /\ last_write = [c \in CardIds |-> 0]

\* `?` on an Err, or the final Ok: execute returns
Return(r, result) ==
    reqs' = [reqs EXCEPT ![r].pc = "done", ![r].result = Some(result)]

Completed(r) ==
    steps' = [steps EXCEPT ![r] = Append(steps[r], reqs[r].pc)]

InFlight == {r \in Reqs : reqs[r].pc \notin {"idle", "done"}}

\* the HTTP handler calls execute(card_id, user_id, user_answer); calls are
\* numbered in the order they start
SubmitReview(r) ==
    /\ reqs[r].pc = "idle"
    /\ r > 1 => reqs[r - 1].pc # "idle"
    /\ Cardinality(InFlight) < Cardinality(HandlerPool)
    /\ \E input \in ReviewInputs :
          reqs' = [reqs EXCEPT ![r].pc = "find_by_id",
                               ![r].card_id = input.card_id,
                               ![r].user_id = input.user_id,
                               ![r].user_answer = input.user_answer,
                               ![r].stored_before = cards[input.card_id],
                               ![r].concurrent =
                                   \E q \in InFlight : reqs[q].card_id = input.card_id]
    /\ UNCHANGED <<cards, review_logs, events, validate_calls, steps, last_write>>
    /\ UNCHANGED outside_review

\* 1. Get the card
FindById(r) ==
    /\ reqs[r].pc = "find_by_id"
    /\ \E db_ok \in BOOLEAN :
          LET found == IF db_ok
                       THEN find_card_or_error(cards[reqs[r].card_id],
                                               reqs[r].card_id, reqs[r].user_id)
                       ELSE Err("database error")
          IN IF found.ok
             THEN /\ reqs' = [reqs EXCEPT ![r].pc = execute_next(reqs[r].pc),
                                          ![r].card = found.value,
                                          ![r].loaded = found.value]
                  /\ Completed(r)
             ELSE /\ Return(r, found)
                  /\ UNCHANGED steps
    /\ UNCHANGED <<cards, review_logs, events, validate_calls, last_write>>
    /\ UNCHANGED outside_review

\* 2. Validate the answer using AI (the OpenAIValidator main wires in when
\* an API key is configured); the call records which endpoints were asked
Validate(r) ==
    /\ reqs[r].pc = "validate"
    /\ \E emb \in ReviewEmbeddingResponses, llm \in ReviewLlmReplies :
          LET card == reqs[r].card[1]
              outcome == OpenAIValidator_validate(card.answer, reqs[r].user_answer, emb, llm)
          IN /\ validate_calls' =
                   Append(validate_calls,
                          [req |-> r,
                           expected_answer |-> card.answer,
                           user_answer |-> reqs[r].user_answer,
                           question_context |-> card.question,
                           embedding |-> IF embedding_invoked(card.answer, reqs[r].user_answer)
                                         THEN Some(emb) ELSE None,
                           llm |-> IF llm_invoked(card.answer, reqs[r].user_answer, emb)
                                   THEN Some(llm) ELSE None])
             /\ IF outcome.ok
                THEN /\ reqs' = [reqs EXCEPT ![r].pc = execute_next(reqs[r].pc),
                                             ![r].validation = outcome.value]
                     /\ Completed(r)
                ELSE /\ Return(r, outcome)
                     /\ UNCHANGED steps
    /\ UNCHANGED <<cards, review_logs, events, last_write>>
    /\ UNCHANGED outside_review

\* 3. Convert AI score to FSRS rating, 4. Update FSRS state
UpdateFsrsState(r) ==
    /\ reqs[r].pc = "update_fsrs_state"
    /\ LET fsrs_rating == score_to_fsrs_rating(reqs[r].validation[1].score)
           card == reqs[r].card[1]
       IN reqs' = [reqs EXCEPT
                     ![r].pc = execute_next(reqs[r].pc),
                     ![r].fsrs_rating = fsrs_rating,
                     ![r].card = Some([card EXCEPT !.fsrs_state =
                                          update_fsrs_state(card.fsrs_state, fsrs_rating)])]
    /\ Completed(r)
    /\ UNCHANGED <<cards, review_logs, events, validate_calls, last_write>>
    /\ UNCHANGED outside_review

\* 5. Save updated card
UpdateCard(r) ==
    /\ reqs[r].pc = "update"
    /\ \E db_ok \in BOOLEAN :
          LET saved == card_update_result(cards, reqs[r].card[1], db_ok)
          IN /\ cards' = saved.table
             /\ last_write' = IF saved.written
                              THEN [last_write EXCEPT ![reqs[r].card_id] = r]
                              ELSE last_write
             /\ IF saved.ok
                THEN /\ reqs' = [reqs EXCEPT ![r].pc = execute_next(reqs[r].pc)]
                     /\ Completed(r)
                ELSE /\ Return(r, Err("database error"))
                     /\ UNCHANGED steps
    /\ UNCHANGED <<review_logs, events, validate_calls>>
    /\ UNCHANGED outside_review

\* 6. Create review log
CreateReviewLog(r) ==
    /\ reqs[r].pc = "create_review_log"
    /\ \E db_ok \in BOOLEAN :
          IF db_ok
          THEN /\ review_logs' =
                     Append(review_logs,
                            review_log_row(
                               ReviewLog_new(r, reqs[r].card_id, reqs[r].user_id,
                                             reqs[r].user_answer, reqs[r].card[1].answer,
                                             reqs[r].validation[1].score,
                                             ValidationMethod_as_str(reqs[r].validation[1].method),
                                             reqs[r].fsrs_rating)))
               /\ reqs' = [reqs EXCEPT ![r].pc = execute_next(reqs[r].pc)]
               /\ Completed(r)
          ELSE /\ Return(r, Err("database error"))
               /\ UNCHANGED <<review_logs, steps>>
    /\ UNCHANGED <<cards, events, validate_calls, last_write>>
    /\ UNCHANGED outside_review

\* 7. Emit domain event, then Ok(ReviewResult { .. })
PublishAndReturn(r) ==
    /\ reqs[r].pc = "publish"
    /\ \E failing \in SUBSET {bus.subscribers[i] : i \in 1..Len(bus.subscribers)} :
          LET event == CardReviewed(reqs[r].card_id, reqs[r].user_id,
                                    reqs[r].validation[1].score, reqs[r].fsrs_rating, r)
              published == EventBus_publish(bus.subscribers, event, failing)
              review_result == ReviewResult(reqs[r].card_id,
                                            reqs[r].validation[1].score,
                                            reqs[r].fsrs_rating,
                                            reqs[r].validation[1].method,
                                            reqs[r].card[1].fsrs_state.scheduled_days)
          IN /\ events' = Append(events, event)
             /\ bus' = [bus EXCEPT !.calls = bus.calls \o published.calls]
             /\ reqs' = [reqs EXCEPT
                           ![r].pc = execute_next(reqs[r].pc),
                           ![r].result = Some(execute_result(published, review_result))]
    /\ Completed(r)
    /\ UNCHANGED <<cards, review_logs, validate_calls, last_write>>
    /\ UNCHANGED <<fn_vars, card_vars, val_vars, stats_vars, imp_vars, del_vars>>

Init ==
    /\ ReviewIdle
    /\ ValIdle
    /\ BusIdle
    /\ ImportIdle
    /\ DeleteIdle
    /\ StatsIdle
    /\ in_state = FsrsState_default
    /\ in_rating = 0
    /\ out_state = FsrsState_default
    /\ fn_pc = "ready"
    /\ in_score = 0
    /\ out_rating = 0
    /\ card_fsrs = FsrsState_default
    /\ gradings = <<>>

Next ==
    \E r \in Reqs :
        \/ SubmitReview(r)
        \/ FindById(r)
        \/ Validate(r)
        \/ UpdateFsrsState(r)
        \/ UpdateCard(r)
        \/ CreateReviewLog(r)
        \/ PublishAndReturn(r)

Spec == Init /\ [][Next]_vars

(***************************************************************************)
(* SpecBus: the use case on a bus that handlers are registered with, as    *)
(* main wires it; a registration may also come after an event              *)
(***************************************************************************)
\* the calls of execute followed on the bus
BusReqs == {1, 2}

\* event_bus.register_handler(handler); a handler is registered once
RegisterHandler(handler) ==
    /\ bus.registered_at[handler] = -1
    /\ bus' = [bus EXCEPT !.subscribers = EventBus_register_handler(@, handler),
                          !.registered_at[handler] = Len(events)]
    /\ UNCHANGED <<fn_vars, card_vars, review_vars, val_vars, stats_vars, imp_vars, del_vars>>

NextBus ==
    \/ \E handler \in Subscribers : RegisterHandler(handler)
    \/ \E r \in BusReqs :
          \/ SubmitReview(r)
          \/ FindById(r)
          \/ Validate(r)
          \/ UpdateFsrsState(r)
          \/ UpdateCard(r)
          \/ CreateReviewLog(r)
          \/ PublishAndReturn(r)

SpecBus == Init /\ [][NextBus]_vars

(***************************************************************************)
(* SpecAdvance: update_fsrs_state applied once to any state and rating     *)
(***************************************************************************)
InitAdvance ==
    /\ in_state \in FsrsInputs
    /\ in_rating \in RatingInputs
    /\ out_state = in_state
    /\ fn_pc = "ready"
    /\ in_score = 0
    /\ out_rating = 0
    /\ card_fsrs = FsrsState_default
    /\ gradings = <<>>
    /\ ReviewIdle
    /\ ValIdle
    /\ BusIdle
    /\ ImportIdle
    /\ DeleteIdle
    /\ StatsIdle

ApplyUpdateFsrsState ==
    /\ fn_pc = "ready"
    /\ out_state' = update_fsrs_state(in_state, in_rating)
    /\ fn_pc' = "done"
    /\ UNCHANGED <<in_state, in_rating, in_score, out_rating>>
    /\ UNCHANGED outside_fn

NextAdvance == ApplyUpdateFsrsState

SpecAdvance == InitAdvance /\ [][NextAdvance]_vars

(***************************************************************************)
(* SpecScore: score_to_fsrs_rating applied once to any score               *)
(***************************************************************************)
InitScore ==
    /\ in_score \in ScoreInputs
    /\ out_rating = 0
    /\ fn_pc = "ready"
    /\ in_state = FsrsState_default
    /\ in_rating = 0
    /\ out_state = FsrsState_default
    /\ card_fsrs = FsrsState_default
    /\ gradings = <<>>
    /\ ReviewIdle
    /\ ValIdle
    /\ BusIdle
    /\ ImportIdle
    /\ DeleteIdle
    /\ StatsIdle

ApplyScoreToFsrsRating ==
    /\ fn_pc = "ready"
    /\ out_rating' = score_to_fsrs_rating(in_score)
    /\ fn_pc' = "done"
    /\ UNCHANGED <<in_state, in_rating, out_state, in_score>>
    /\ UNCHANGED outside_fn

NextScore == ApplyScoreToFsrsRating

SpecScore == InitScore /\ [][NextScore]_vars

(***************************************************************************)
(* SpecGradings: one new card graded again and again; each rating is the   *)
(* one score_to_fsrs_rating derives from a validation score                *)
(***************************************************************************)
InitGradings ==
    /\ card_fsrs = FsrsState_default
    /\ gradings = <<>>
    /\ in_state = FsrsState_default
    /\ in_rating = 0
    /\ out_state = FsrsState_default
    /\ fn_pc = "ready"
    /\ in_score = 0
    /\ out_rating = 0
    /\ ReviewIdle
    /\ ValIdle
    /\ BusIdle
    /\ ImportIdle
    /\ DeleteIdle
    /\ StatsIdle

GradeCard ==
    /\ Len(gradings) < MaxGradings
    /\ \E score \in ScoreInputs :
          LET rating == score_to_fsrs_rating(score) IN
          /\ card_fsrs' = update_fsrs_state(card_fsrs, rating)
          /\ gradings' = Append(gradings, rating)
    /\ UNCHANGED outside_card

NextGradings == GradeCard

SpecGradings == InitGradings /\ [][NextGradings]_vars

(***************************************************************************)
(* SpecValidate: one OpenAIValidator::validate call on any two strings,    *)
(* one strategy at a time; the endpoints answer when they are asked        *)
(***************************************************************************)
InitValidate ==
    /\ \E expected_answer \in Strings(MaxStrLen), user_answer \in Strings(MaxStrLen) :
          val = [pc |-> "check_exact_match",
                 expected_answer |-> expected_answer,
                 user_answer |-> user_answer,
                 emb |-> None,
                 llm |-> None,
                 embedding_calls |-> 0,
                 llm_calls |-> 0,
                 result |-> None]
    /\ in_state = FsrsState_default
    /\ in_rating = 0
    /\ out_state = FsrsState_default
    /\ fn_pc = "ready"
    /\ in_score = 0
    /\ out_rating = 0
    /\ card_fsrs = FsrsState_default
    /\ gradings = <<>>
    /\ ReviewIdle
    /\ StatsIdle
    /\ BusIdle
    /\ ImportIdle
    /\ DeleteIdle

\* Strategy 1: Exact match
CheckExactMatch ==
    /\ val.pc = "check_exact_match"
    /\ LET exact == check_exact_match(val.expected_answer, val.user_answer)
       IN IF exact # None
          THEN val' = [val EXCEPT !.pc = "done",
                                  !.result = Some(Ok(ValidationResult(exact[1], "Exact")))]
          ELSE val' = [val EXCEPT !.pc = "check_embedding_similarity"]
    /\ UNCHANGED outside_val

\* Strategy 2: Embedding similarity
CheckEmbeddingSimilarity ==
    /\ val.pc = "check_embedding_similarity"
    /\ \E resp \in EmbeddingResponses :
          LET similarity == check_embedding_similarity(resp)
              called == [val EXCEPT !.emb = Some(resp),
                                    !.embedding_calls = val.embedding_calls + 1]
          IN IF embedding_accepts(similarity)
             THEN val' = [called EXCEPT
                            !.pc = "done",
                            !.result = Some(Ok(ValidationResult(similarity.value[1], "Embedding")))]
             ELSE val' = [called EXCEPT !.pc = "check_llm_validation"]
    /\ UNCHANGED outside_val

\* Strategy 3: LLM validation
CheckLlmValidation ==
    /\ val.pc = "check_llm_validation"
    /\ \E reply \in LlmReplies :
          val' = [val EXCEPT !.llm = Some(reply),
                             !.llm_calls = val.llm_calls + 1,
                             !.pc = "done",
                             !.result = Some(llm_result(check_llm_validation(reply)))]
    /\ UNCHANGED outside_val

NextValidate ==
    \/ CheckExactMatch
    \/ CheckEmbeddingSimilarity
    \/ CheckLlmValidation

SpecValidate == InitValidate /\ [][NextValidate]_vars

(***************************************************************************)
(* SpecFallback: one FallbackValidator::validate call on any two strings   *)
(* (one character longer, so that an answer can hold two words)            *)
(***************************************************************************)
InitFallback ==
    /\ \E expected_answer \in Strings(MaxStrLen + 1), user_answer \in Strings(MaxStrLen + 1) :
          val = [pc |-> "fallback_validate",
                 expected_answer |-> expected_answer,
                 user_answer |-> user_answer,
                 emb |-> None,
                 llm |-> None,
                 embedding_calls |-> 0,
                 llm_calls |-> 0,
                 result |-> None]
    /\ in_state = FsrsState_default
    /\ in_rating = 0
    /\ out_state = FsrsState_default
    /\ fn_pc = "ready"
    /\ in_score = 0
    /\ out_rating = 0
    /\ card_fsrs = FsrsState_default
    /\ gradings = <<>>
    /\ ReviewIdle
    /\ StatsIdle
    /\ BusIdle
    /\ ImportIdle
    /\ DeleteIdle

\* validate(expected_answer, user_answer, _question_context)
FallbackValidate ==
    /\ val.pc = "fallback_validate"
    /\ val' = [val EXCEPT
                 !.pc = "done",
                 !.result = Some(FallbackValidator_validate(val.expected_answer, val.user_answer))]
    /\ UNCHANGED outside_val

NextFallback == FallbackValidate

SpecFallback == InitFallback /\ [][NextFallback]_vars

(***************************************************************************)
(* SpecStats: StatisticsEventHandler::handle run for up to MaxEvents       *)
(* events, its store statements interleaved, while the clock advances      *)
(***************************************************************************)
\* a card without deck and a card of deck d1; for user u1 no stats row or the
\* row of earlier reviews, for deck d1 no stats row or a zeroed one
InitStats ==
    /\ cards = [c \in CardIds |->
                   IF c = "c1"
                   THEN Some(Card_new("c1", "u1", "2+2?", <<"a">>))
                   ELSE Some([Card_new("c2", "u1", "1+1?", <<"b">>) EXCEPT !.deck_id = Some("d1")])]
    /\ clock = 1
    /\ \E row \in {None, Some(UserStats_reviewed)} :
          /\ user_stats = [u \in UserIds |-> IF u = "u1" THEN row ELSE None]
          /\ tally = [u \in UserIds |-> [NoTally EXCEPT !.row0 = IF u = "u1" THEN row ELSE None]]
    /\ \E row \in {None, Some(DeckStats_new("u1"))} :
          deck_stats = [d \in DeckIds |-> row]
    /\ handlers = [h \in Handlers |-> IdleHandler]
    /\ review_logs = <<>>
    /\ events = <<>>
    /\ validate_calls = <<>>
    /\ reqs = [r \in Reqs |-> IdleReq]
    /\ steps = [r \in Reqs |-> <<>>]
    /\ last_write = [c \in CardIds |-> 0]
    /\ ValIdle
    /\ BusIdle
    /\ ImportIdle
    /\ DeleteIdle
    /\ in_state = FsrsState_default
    /\ in_rating = 0
    /\ out_state = FsrsState_default
    /\ fn_pc = "ready"
    /\ in_score = 0
    /\ out_rating = 0
    /\ card_fsrs = FsrsState_default
    /\ gradings = <<>>

HandlersInFlight == {h \in Handlers : handlers[h].pc \notin {"idle", "done"}}

\* `?` on an Err, or the final Ok(()): handle returns and its locals are gone
HandlerReturn(h, result) ==
    handlers' = [handlers EXCEPT ![h] = [IdleHandler EXCEPT !.pc = "done",
                                                            !.result = Some(result)]]

\* the service clock passes midnight
Tick ==
    /\ clock < MaxDay
    /\ clock' = clock + 1
    /\ UNCHANGED <<cards, user_stats, deck_stats, handlers, tally>>
    /\ UNCHANGED outside_stats

\* handle(event): match event; for CardReviewed is_correct and review_date
\* are computed before the first store call
Handle(h) ==
    /\ handlers[h].pc = "idle"
    /\ h > 1 => handlers[h - 1].pc # "idle"
    /\ Cardinality(HandlersInFlight) < Cardinality(HandlerPool)
    /\ \E event \in StatsEvents :
          IF event.type = "CardReviewed"
          THEN handlers' = [handlers EXCEPT
                              ![h].pc = "user_select",
                              ![h].event = event,
                              ![h].is_correct = FGe(event.score, correct_threshold),
                              ![h].review_date = clock]
          ELSE handlers' = [handlers EXCEPT ![h].pc = "card_find", ![h].event = event]
    /\ UNCHANGED <<cards, clock, user_stats, deck_stats, tally>>
    /\ UNCHANGED outside_stats

\* PgUserStatsRepository::get_or_create: SELECT .. FROM user_stats WHERE user_id
UserSelect(h) ==
    /\ handlers[h].pc = "user_select"
    /\ \E db_ok \in BOOLEAN :
          LET stats == user_stats[handlers[h].event.user_id]
          IN IF ~db_ok
             THEN HandlerReturn(h, Err("database error"))
             ELSE IF stats # None
             THEN handlers' = [handlers EXCEPT ![h].pc = "user_update",
                                               ![h].current_stats = stats]
             ELSE handlers' = [handlers EXCEPT ![h].pc = "user_insert"]
    /\ UNCHANGED <<cards, clock, user_stats, deck_stats, tally>>
    /\ UNCHANGED outside_stats

\* PgUserStatsRepository::get_or_create: INSERT INTO user_stats, Ok(new_stats)
UserInsert(h) ==
    /\ handlers[h].pc = "user_insert"
    /\ \E db_ok \in BOOLEAN :
          LET inserted == stats_insert(user_stats, handlers[h].event.user_id, UserStats_new)
          IN IF ~db_ok
             THEN /\ HandlerReturn(h, Err("database error"))
                  /\ UNCHANGED user_stats
             ELSE /\ user_stats' = inserted.table
                  /\ IF inserted.ok
                     THEN handlers' = [handlers EXCEPT ![h].pc = "user_update",
                                                       ![h].current_stats = Some(UserStats_new)]
                     ELSE HandlerReturn(h, Err(inserted.error))
    /\ UNCHANGED <<cards, clock, deck_stats, tally>>
    /\ UNCHANGED outside_stats

\* PgUserStatsRepository::update_after_review: is_new_day from the row read,
\* then UPDATE user_stats
UserUpdate(h) ==
    /\ handlers[h].pc = "user_update"
    /\ \E db_ok \in BOOLEAN :
          LET user_id == handlers[h].event.user_id
              current_stats == handlers[h].current_stats[1]
              new_day == is_new_day(current_stats.last_active_date, handlers[h].review_date)
          IN IF ~db_ok
             THEN /\ HandlerReturn(h, Err("database error"))
                  /\ UNCHANGED <<user_stats, tally>>
             ELSE /\ user_stats' = stats_update_after_review(user_stats, user_id, current_stats,
                                                             handlers[h].is_correct, new_day,
                                                             handlers[h].review_date)
                  /\ tally' = [tally EXCEPT
                                 ![user_id].updates = tally[user_id].updates + 1,
                                 ![user_id].correct = tally[user_id].correct
                                                      + (IF handlers[h].is_correct THEN 1 ELSE 0),
                                 ![user_id].dates = tally[user_id].dates \cup {handlers[h].review_date},
                                 ![user_id].overlapped = tally[user_id].overlapped
                                                         \/ user_stats[user_id] # Some(current_stats)]
                  /\ handlers' = [handlers EXCEPT ![h].pc = "card_find",
                                                  ![h].current_stats = None]
    /\ UNCHANGED <<cards, clock, deck_stats>>
    /\ UNCHANGED outside_stats

\* self.card_repo.find_by_id(card_id).await?, if let Some(deck_id) = card.deck_id
CardFind(h) ==
    /\ handlers[h].pc = "card_find"
    /\ \E db_ok \in BOOLEAN :
          LET card == cards[handlers[h].event.card_id]
          IN IF ~db_ok
             THEN HandlerReturn(h, Err("database error"))
             ELSE IF card = None \/ card[1].deck_id = None
             THEN HandlerReturn(h, Ok("unit"))
             ELSE handlers' = [handlers EXCEPT
                                 ![h].pc = IF handlers[h].event.type = "CardReviewed"
                                           THEN "deck_select"
                                           ELSE "deck_increment",
                                 ![h].deck_id = card[1].deck_id]
    /\ UNCHANGED <<cards, clock, user_stats, deck_stats, tally>>
    /\ UNCHANGED outside_stats

\* PgDeckStatsRepository::update_after_review: SELECT .. FROM deck_stats
DeckSelect(h) ==
    /\ handlers[h].pc = "deck_select"
    /\ \E db_ok \in BOOLEAN :
          IF ~db_ok
          THEN HandlerReturn(h, Err("database error"))
          ELSE handlers' = [handlers EXCEPT
                              ![h].pc = "deck_update",
                              ![h].current_stats = deck_stats[handlers[h].deck_id[1]]]
    /\ UNCHANGED <<cards, clock, user_stats, deck_stats, tally>>
    /\ UNCHANGED outside_stats

\* PgDeckStatsRepository::update_after_review: UPDATE deck_stats, then Ok(())
DeckUpdate(h) ==
    /\ handlers[h].pc = "deck_update"
    /\ \E db_ok \in BOOLEAN :
          LET current_stats == handlers[h].current_stats
              new_day == is_new_day(IF current_stats = None THEN None
                                    ELSE current_stats[1].last_active_date,
                                    handlers[h].review_date)
          IN IF ~db_ok
             THEN /\ HandlerReturn(h, Err("database error"))
                  /\ UNCHANGED deck_stats
             ELSE /\ deck_stats' = stats_update_after_review(
                                      deck_stats, handlers[h].deck_id[1],
                                      IF current_stats = None THEN DeckStats_new("u1")
                                      ELSE current_stats[1],
                                      handlers[h].is_correct, new_day, handlers[h].review_date)
                  /\ HandlerReturn(h, Ok("unit"))
    /\ UNCHANGED <<cards, clock, user_stats, tally>>
    /\ UNCHANGED outside_stats

\* CardCreated: self.deck_stats_repo.increment_card_count(deck_id).await?
DeckIncrement(h) ==
    /\ handlers[h].pc = "deck_increment"
    /\ \E db_ok \in BOOLEAN :
          IF ~db_ok
          THEN /\ HandlerReturn(h, Err("database error"))
               /\ UNCHANGED deck_stats
          ELSE /\ deck_stats' = increment_card_count(deck_stats, handlers[h].deck_id[1])
               /\ HandlerReturn(h, Ok("unit"))
    /\ UNCHANGED <<cards, clock, user_stats, tally>>
    /\ UNCHANGED outside_stats

NextStats ==
    \/ Tick
    \/ \E h \in Handlers :
          \/ Handle(h)
          \/ UserSelect(h)
          \/ UserInsert(h)
          \/ UserUpdate(h)
          \/ CardFind(h)
          \/ DeckSelect(h)
          \/ DeckUpdate(h)
          \/ DeckIncrement(h)

SpecStats == InitStats /\ [][NextStats]_vars

(***************************************************************************)
(* SpecImport: one bulk import into deck d1 from the parsed cards on, and  *)
(* the detached embedding task it spawns                                   *)
(***************************************************************************)
\* an empty card store; for deck d1 no stats row (a deck just created, or
\* one whose statistics were never requested) or a zeroed one
InitImport ==
    /\ cards = [c \in CardIds |-> None]
    /\ \E row \in {None, Some(DeckStats_new("u1"))} :
          deck_stats = [d \in DeckIds |-> row]
    /\ clock = 1
    /\ user_stats = [u \in UserIds |-> None]
    /\ handlers = [h \in Handlers |-> IdleHandler]
    /\ tally = [u \in UserIds |-> NoTally]
    /\ review_logs = <<>>
    /\ events = <<>>
    /\ validate_calls = <<>>
    /\ reqs = [r \in Reqs |-> IdleReq]
    /\ steps = [r \in Reqs |-> <<>>]
    /\ last_write = [c \in CardIds |-> 0]
    /\ ValIdle
    /\ BusIdle
    /\ ImportIdle
    /\ DeleteIdle
    /\ in_state = FsrsState_default
    /\ in_rating = 0
    /\ out_state = FsrsState_default
    /\ fn_pc = "ready"
    /\ in_score = 0
    /\ out_rating = 0
    /\ card_fsrs = FsrsState_default
    /\ gradings = <<>>

\* execute: the lines parsed into n cards and `skipped` skipped lines;
\* if cards.is_empty() { return Ok(ImportResult { cards_imported: 0, .. }) }
ImportExecute ==
    /\ imp.pc = "idle"
    /\ \E n \in 0..Len(ImportCardIds), skipped \in {0, 1} :
          IF n = 0
          THEN imp' = [imp EXCEPT !.pc = "done",
                                  !.skipped = skipped,
                                  !.result = Some(Ok(ImportResult(0, skipped)))]
          ELSE imp' = [imp EXCEPT !.pc = "bulk_create",
                                  !.skipped = skipped,
                                  !.cards = import_cards(n, imp.user_id, imp.deck_id)]
    /\ UNCHANGED <<cards, deck_stats>>
    /\ UNCHANGED outside_imp

\* let card_ids = self.card_repo.bulk_create(&cards).await?;
\* let imported = card_ids.len() as u32;
BulkCreate ==
    /\ imp.pc = "bulk_create"
    /\ \E db_ok \in BOOLEAN :
          IF db_ok
          THEN /\ cards' = bulk_create(cards, imp.cards)
               /\ imp' = [imp EXCEPT !.pc = "add_to_card_count",
                                     !.card_ids = [i \in 1..Len(imp.cards) |-> imp.cards[i].id],
                                     !.imported = Len(imp.cards)]
          ELSE /\ imp' = [imp EXCEPT !.pc = "done", !.result = Some(Err("database error"))]
               /\ UNCHANGED cards
    /\ UNCHANGED deck_stats
    /\ UNCHANGED outside_imp

\* variant: the outcome of the bulk-add ignored (no `?`)
AddToCardCountUnchecked ==
    /\ imp.pc = "add_to_card_count"
    /\ \E db_ok \in BOOLEAN :
          /\ deck_stats' = IF db_ok
                           THEN add_to_card_count(deck_stats, imp.deck_id, imp.imported)
                           ELSE deck_stats
          /\ imp' = [imp EXCEPT !.pc = "spawn_embedding_worker",
                                !.add_calls = imp.add_calls + 1]
    /\ UNCHANGED cards
    /\ UNCHANGED outside_imp

\* self.deck_stats_repo.add_to_card_count(deck_id, imported as i32).await?;
AddToCardCount ==
    /\ imp.pc = "add_to_card_count"
    /\ \E db_ok \in BOOLEAN :
          IF db_ok
          THEN /\ deck_stats' = add_to_card_count(deck_stats, imp.deck_id, imp.imported)
               /\ imp' = [imp EXCEPT !.pc = "spawn_embedding_worker",
                                     !.add_calls = imp.add_calls + 1]
          ELSE /\ imp' = [imp EXCEPT !.pc = "done",
                                     !.add_calls = imp.add_calls + 1,
                                     !.result = Some(Err("database error"))]
               /\ UNCHANGED deck_stats
    /\ UNCHANGED cards
    /\ UNCHANGED outside_imp

\* spawn_embedding_worker(cards.zip(card_ids).map(|(c, id)| (id, c.answer)), ..):
\* tokio::spawn starts the task and returns at once
SpawnEmbeddingWorker ==
    /\ imp.pc = "spawn_embedding_worker"
    /\ imp' = [imp EXCEPT
                 !.pc = "return",
                 !.worker = spawn_embedding_worker(
                               [i \in 1..Len(imp.cards) |->
                                   <<imp.card_ids[i], imp.cards[i].answer>>])]
    /\ UNCHANGED <<cards, deck_stats>>
    /\ UNCHANGED outside_imp

\* Ok(ImportResult { cards_imported: imported, cards_skipped: skipped }); only
\* a spawner that awaited the task would be held here until it has ended
ImportReturn ==
    /\ imp.pc = "return"
    /\ imp.worker.awaited => imp.worker.pc = "done"
    /\ imp' = [imp EXCEPT !.pc = "done",
                          !.result = Some(Ok(ImportResult(imp.imported, imp.skipped)))]
    /\ UNCHANGED <<cards, deck_stats>>
    /\ UNCHANGED outside_imp

\* the task: match embedding_service.generate_embedding(&answer_text).await;
\* Err(e) => tracing::warn!
GenerateEmbedding ==
    /\ imp.worker.pc = "generate_embedding"
    /\ \E ok \in BOOLEAN :
          LET task == imp.worker.tasks[imp.worker.next]
              called == [imp.worker EXCEPT !.generate_calls = Append(@, <<task[1], ok>>)]
          IN IF ok
             THEN imp' = [imp EXCEPT !.worker =
                             [called EXCEPT !.pc = "update_embedding",
                                            !.embedding = Some(generate_embedding(task[2]))]]
             ELSE imp' = [imp EXCEPT !.worker =
                             worker_continue([called EXCEPT !.warnings = Append(@, task[1])], FALSE)]
    /\ UNCHANGED <<cards, deck_stats>>
    /\ UNCHANGED outside_imp

\* the task: if let Err(e) = card_repo.update_embedding(card_id, embedding).await
\* { tracing::warn! }
UpdateEmbedding ==
    /\ imp.worker.pc = "update_embedding"
    /\ \E db_ok \in BOOLEAN :
          LET task == imp.worker.tasks[imp.worker.next]
              called == [imp.worker EXCEPT
                            !.update_calls = Append(@, <<task[1], imp.worker.embedding[1], db_ok>>)]
          IN IF db_ok
             THEN /\ cards' = update_embedding(cards, task[1], imp.worker.embedding[1])
                  /\ imp' = [imp EXCEPT !.worker = worker_continue(called, TRUE)]
             ELSE /\ imp' = [imp EXCEPT !.worker =
                                worker_continue([called EXCEPT !.warnings = Append(@, task[1])], FALSE)]
                  /\ UNCHANGED cards
    /\ UNCHANGED deck_stats
    /\ UNCHANGED outside_imp

NextImport ==
    \/ ImportExecute
    \/ BulkCreate
    \/ AddToCardCount
    \/ SpawnEmbeddingWorker
    \/ ImportReturn
    \/ GenerateEmbedding
    \/ UpdateEmbedding

SpecImport == InitImport /\ [][NextImport]_vars

\* the runtime keeps polling the spawned task, and its calls return
FairImport ==
    /\ SpecImport
    /\ WF_vars(GenerateEmbedding)
    /\ WF_vars(UpdateEmbedding)


(***************************************************************************)
(* A review during the embedding backfill: SpecBackfill.  One bulk import  *)
(* with its embedding worker, and one submitReview call that may start at  *)
(* any moment, interleave at their store and service calls.                *)
(***************************************************************************)
NextBackfill ==
    \/ ImportExecute
    \/ BulkCreate
    \/ AddToCardCount
    \/ SpawnEmbeddingWorker
    \/ ImportReturn
    \/ GenerateEmbedding
    \/ UpdateEmbedding
    \/ SubmitReview(1)
    \/ FindById(1)
    \/ Validate(1)
    \/ UpdateFsrsState(1)
    \/ UpdateCard(1)
    \/ CreateReviewLog(1)
    \/ PublishAndReturn(1)

SpecBackfill == InitImport /\ [][NextBackfill]_vars

(***************************************************************************)
(* Deleting cards: SpecDelete.  Up to two delete requests, by the owner    *)
(* u1 or by u2, for the stored card c1 or the absent card c2, interleave   *)
(* at their store calls; every store call may fail.                        *)
(***************************************************************************)
InitDelete == Init

DeleteInputs == [card_id : CardIds, user_id : {"u1", "u2"}]

\* the HTTP handler calls execute(card_id, user_id)
DeleteExecute(d) ==
    /\ del[d].pc = "idle"
    /\ d > 1 => del[d - 1].pc # "idle"
    /\ \E input \in DeleteInputs :
          del' = [del EXCEPT ![d].pc = "find_by_id",
                             ![d].card_id = input.card_id,
                             ![d].user_id = input.user_id]
    /\ UNCHANGED <<fn_vars, card_vars, review_vars, val_vars, stats_vars, bus_vars, imp_vars>>

\* let card = self.card_repository.find_by_id(card_id).await?; match card
DeleteFindById(d) ==
    /\ del[d].pc = "find_by_id"
    /\ \E db_ok \in BOOLEAN :
          IF db_ok
          THEN LET row == cards[del[d].card_id]
                   matched == delete_card_match(row, del[d].user_id)
               IN IF matched.ok
                  THEN del' = [del EXCEPT ![d].pc = "delete",
                                          ![d].card = row,
                                          ![d].found = Some(row)]
                  ELSE del' = [del EXCEPT ![d].pc = "done",
                                          ![d].card = row,
                                          ![d].found = Some(row),
                                          ![d].result = Some(matched)]
          ELSE del' = [del EXCEPT ![d].pc = "done",
                                  ![d].result = Some(Err("DatabaseError"))]
    /\ UNCHANGED <<fn_vars, card_vars, review_vars, val_vars, stats_vars, bus_vars, imp_vars>>

\* self.card_repository.delete(card_id).await?; Ok(())
DeleteDelete(d) ==
    /\ del[d].pc = "delete"
    /\ \E db_ok \in BOOLEAN :
          IF db_ok
          THEN /\ cards' = card_repository_delete(cards, del[d].card_id)
               /\ del' = [del EXCEPT ![d].pc = "done", ![d].result = Some(Ok("unit"))]
          ELSE /\ cards' = cards
               /\ del' = [del EXCEPT ![d].pc = "done",
                                     ![d].result = Some(Err("DatabaseError"))]
    /\ UNCHANGED <<review_logs, events, validate_calls, reqs, steps, last_write>>
    /\ UNCHANGED <<fn_vars, card_vars, val_vars, stats_vars, bus_vars, imp_vars>>

NextDelete ==
    \E d \in DeleteReqs :
        \/ DeleteExecute(d)
        \/ DeleteFindById(d)
        \/ DeleteDelete(d)

SpecDelete == InitDelete /\ [][NextDelete]_vars

(***************************************************************************)
(* Scheduler properties (SpecAdvance)                                      *)
(***************************************************************************)
AdvanceDone == fn_pc = "done"

\* C1: for every state and every rating in 1..4, update_fsrs_state returns
\* a state with reps one more than the input's and elapsed_days 0.
C1_RepsIncrementElapsedReset ==
    (AdvanceDone /\ in_rating \in 1..4) =>
        /\ out_state.reps = in_state.reps + 1
        /\ out_state.elapsed_days = 0

C1_Witness ==
    /\ AdvanceDone
    /\ in_rating \in 1..4
    /\ in_state.reps >= 2
    /\ in_state.elapsed_days > 0
    /\ out_state.reps = in_state.reps + 1

\* C2: rating Again (1) on any state gives state Relearning, scheduled_days 1
\* and lapses one more than before; no other rating changes lapses.
C2_AgainLapses ==
    AdvanceDone =>
        /\ in_rating = 1 =>
              /\ out_state.state = "Relearning"
              /\ out_state.scheduled_days = 1
              /\ out_state.lapses = in_state.lapses + 1
        /\ in_rating # 1 => out_state.lapses = in_state.lapses

C2_Witness ==
    /\ AdvanceDone
    /\ in_rating = 1
    /\ in_state.state = "Review"
    /\ in_state.lapses = 1
    /\ in_state.scheduled_days = 6
    /\ out_state.lapses = 2

\* C3: for ratings Hard (2) and Good (3) the new state is Learning exactly
\* when the incremented reps is at most 1, which is when the input had reps
\* 0, and Review otherwise; a new card rated Good is in Learning, and rated
\* Good once more it is in Review.
C3_HardGoodLifecycle ==
    (AdvanceDone /\ in_rating \in {2, 3}) =>
        /\ out_state.state = "Learning" <=> out_state.reps <= 1
        /\ out_state.reps <= 1 <=> in_state.reps = 0
        /\ out_state.state # "Learning" => out_state.state = "Review"
        /\ (in_rating = 3 /\ in_state = FsrsState_default) =>
              out_state.state = "Learning"
        /\ (in_rating = 3 /\ in_state = update_fsrs_state(FsrsState_default, 3)) =>
              out_state.state = "Review"

C3_Witness ==
    /\ AdvanceDone
    /\ in_rating = 3
    /\ in_state = update_fsrs_state(FsrsState_default, 3)
    /\ in_state.state = "Learning"
    /\ out_state.state = "Review"

\* C4: a state with reps 0, whatever its stability and difficulty, rated
\* Good gives stability 2.5, difficulty 5.0, scheduled_days 6 and Learning.
C4_FreshGood ==
    (AdvanceDone /\ in_state.reps = 0 /\ in_rating = 3) =>
        /\ out_state.stability = <<5, 2>>
        /\ out_state.difficulty = 500
        /\ out_state.scheduled_days = 6
        /\ out_state.state = "Learning"

C4_Witness ==
    /\ AdvanceDone
    /\ in_state.reps = 0
    /\ in_rating = 3
    /\ in_state.stability = <<5, 2>>
    /\ in_state.difficulty = 1000
    /\ out_state.scheduled_days = 6

\* C5: for a rating outside 1..4 and every state, update_fsrs_state returns
\* the same state as for rating Good (3).
C5_UnknownRatingAsGood ==
    (AdvanceDone /\ in_rating \notin 1..4) =>
        out_state = update_fsrs_state(in_state, 3)

(***************************************************************************)
(* States of a card (SpecGradings)                                         *)
(***************************************************************************)
FsrsInRange(f) ==
    /\ f.difficulty >= 100
    /\ f.difficulty <= 1000
    /\ RatLe(<<0, 1>>, f.stability)
    /\ f.scheduled_days >= 1

\* C6 as stated: every state a card can hold, that of a new card included,
\* has difficulty in [1,10], stability >= 0 and scheduled_days >= 1.
C6_Original ==
    FsrsInRange(card_fsrs)

\* C6: every state a card holds after at least one grading has difficulty in
\* [1,10], stability >= 0 and scheduled_days >= 1.
C6_GradedInRange ==
    Len(gradings) >= 1 => FsrsInRange(card_fsrs)

C6_Witness ==
    /\ Len(gradings) >= 2
    /\ gradings[Len(gradings)] = 3
    /\ card_fsrs.scheduled_days = 1
    /\ RatLe(card_fsrs.stability, <<1, 2>>)

\* C7: in every state reached from a new card by gradings, reps = 0 implies
\* state New, and lapses > 0 implies that one of the gradings was Again (1).
C7_NewAndLapses ==
    /\ card_fsrs.reps = 0 => card_fsrs.state = "New"
    /\ card_fsrs.lapses > 0 => \E i \in 1..Len(gradings) : gradings[i] = 1

C7_Witness ==
    /\ card_fsrs.lapses = 2
    /\ Len(gradings) = 3
    /\ gradings[3] # 1

StepOrder ==
    <<"find_by_id", "validate", "update_fsrs_state", "update",
      "create_review_log", "publish">>

IsPrefix(s, t) ==
    /\ Len(s) <= Len(t)
    /\ \A i \in 1..Len(s) : s[i] = t[i]

HasStep(r, step) == \E i \in 1..Len(steps[r]) : steps[r][i] = step
LoggedBy(r) == \E i \in 1..Len(review_logs) : review_logs[i].id = r
PublishedBy(r) == \E i \in 1..Len(events) : events[i].req = r
ValidatedFor(r) == \E i \in 1..Len(validate_calls) : validate_calls[i].req = r

\* C9: within one submitReview the steps happen in the order load card,
\* validate, compute the new state, persist the card, append the log entry,
\* publish CardReviewed; a log entry is appended only after the card update
\* succeeded, and the event is published only after both writes succeeded.
C9_StepsInOrder ==
    \A r \in Reqs :
        /\ IsPrefix(steps[r], StepOrder)
        /\ LoggedBy(r) => HasStep(r, "update")
        /\ PublishedBy(r) => (HasStep(r, "update") /\ HasStep(r, "create_review_log")
                              /\ LoggedBy(r))

C9_Witness ==
    \E r \in Reqs :
        /\ steps[r] = StepOrder
        /\ LoggedBy(r)
        /\ PublishedBy(r)
        /\ reqs[r].result # None
        /\ reqs[r].result[1].ok

NotFoundReturned(r) ==
    /\ reqs[r].pc = "done"
    /\ reqs[r].result = Some(Err("Card not found"))

C10_NoEffect ==
    \A r \in Reqs :
        NotFoundReturned(r) =>
            /\ cards[reqs[r].card_id] = None
            /\ steps[r] = <<>>
            /\ ~ValidatedFor(r)
            /\ ~LoggedBy(r)
            /\ ~PublishedBy(r)

C10_LookupStep ==
    \A r \in Reqs :
        (/\ reqs[r].pc = "find_by_id"
         /\ reqs'[r].pc # "find_by_id"
         /\ cards[reqs[r].card_id] = None) =>
            /\ reqs'[r].pc = "done"
            /\ ~reqs'[r].result[1].ok
            /\ reqs'[r].result[1].error \in {"Card not found", "database error"}
            /\ UNCHANGED <<cards, review_logs, events, validate_calls, steps, last_write>>

\* C10: submitReview for a card id that is not in the Card Store returns an
\* error (Card not found, unless the lookup itself failed) and has no effect:
\* the validator is not invoked, no card is updated, no review log entry is
\* created and no event is published.
C10_AbsentCardNotFound ==
    [](C10_NoEffect) /\ [][C10_LookupStep]_vars

C10_Witness ==
    \E r \in Reqs :
        /\ NotFoundReturned(r)
        /\ reqs[r].card_id = "c2"
        /\ \E q \in Reqs : q # r /\ LoggedBy(q)

(***************************************************************************)
(* Review Orchestrator: failures and concurrent reviews (Spec)             *)
(***************************************************************************)
ReturnedError(r) ==
    /\ reqs[r].pc = "done"
    /\ ~reqs[r].result[1].ok

ReturnedOk(r) ==
    /\ reqs[r].pc = "done"
    /\ reqs[r].result[1].ok

\* no other call has written the card of call r
OnlyWriter(r) == last_write[reqs[r].card_id] \in {0, r}

UpToCardWrite == <<"find_by_id", "validate", "update_fsrs_state", "update">>

\* C11 as stated: whenever submitReview returns an error, for whatever
\* reason, the card's stored MemoryState is the same as before the call.
C11_Original ==
    \A r \in Reqs :
        (ReturnedError(r) /\ OnlyWriter(r)) =>
            cards[reqs[r].card_id] = reqs[r].stored_before

\* C11: a submitReview that returns an error without having passed the
\* card-store write (card absent, lookup failure, validation failure, failed
\* card write) has not written the card, whose stored MemoryState is the same
\* as before the call; one that returns an error after the card write (failed
\* review-log write) leaves its update stored: the stored MemoryState is the
\* new one, with more repetitions than before the call.
C11_ErrorBeforeCardWrite ==
    \A r \in Reqs :
        ReturnedError(r) =>
            LET c == reqs[r].card_id IN
            IF HasStep(r, "update")
            THEN /\ steps[r] = UpToCardWrite
                 /\ reqs[r].result[1].error = "database error"
                 /\ last_write[c] = r =>
                       /\ cards[c][1].fsrs_state = reqs[r].card[1].fsrs_state
                       /\ cards[c][1].fsrs_state.reps > reqs[r].stored_before[1].fsrs_state.reps
            ELSE /\ last_write[c] # r
                 /\ last_write[c] = 0 => cards[c] = reqs[r].stored_before

C11_Witness ==
    \E r \in Reqs :
        /\ ReturnedError(r)
        /\ steps[r] = <<"find_by_id", "validate", "update_fsrs_state">>
        /\ last_write[reqs[r].card_id] = 0
        /\ cards[reqs[r].card_id] # None
        /\ cards[reqs[r].card_id] = reqs[r].stored_before

ValidateCallOf(r) ==
    validate_calls[CHOOSE i \in 1..Len(validate_calls) : validate_calls[i].req = r]

\* the cascade of call r asked the chat endpoint and the call failed
LlmFailedFor(r) ==
    /\ ValidatedFor(r)
    /\ ValidateCallOf(r).llm # None
    /\ ~check_llm_validation(ValidateCallOf(r).llm[1]).ok

\* C12: if the GenerativeJudgment call fails when the cascade reaches it,
\* validate returns that error and submitReview fails with it: the card is
\* not updated, no review log entry is written and no CardReviewed event is
\* published.
C12_LlmFailureFailsReview ==
    \A r \in Reqs :
        LlmFailedFor(r) =>
            /\ reqs[r].pc = "done"
            /\ reqs[r].result = Some(check_llm_validation(ValidateCallOf(r).llm[1]))
            /\ ~reqs[r].result[1].ok
            /\ steps[r] = <<"find_by_id">>
            /\ last_write[reqs[r].card_id] # r
            /\ last_write[reqs[r].card_id] = 0 =>
                  cards[reqs[r].card_id] = reqs[r].stored_before
            /\ ~LoggedBy(r)
            /\ ~PublishedBy(r)

C12_Witness ==
    \E r \in Reqs :
        /\ LlmFailedFor(r)
        /\ ValidateCallOf(r).embedding = Some(EmbeddingError)
        /\ reqs[r].result = Some(Err("openai error"))
        /\ cards[reqs[r].card_id] = reqs[r].stored_before

LogOf(r) ==
    review_logs[CHOOSE i \in 1..Len(review_logs) : review_logs[i].id = r]

\* C13: every successful submitReview returns the validator's score and
\* method, the grade score_to_fsrs_rating(score) and the scheduled_days of the
\* state it persisted; the review log entry it appended carries the same
\* score, method and grade together with the card's stored expected answer.
C13_ResultAndLogEntry ==
    \A r \in Reqs :
        ReturnedOk(r) =>
            LET res == reqs[r].result[1].value[1]
                validation == reqs[r].validation[1]
            IN /\ res.ai_score = validation.score
               /\ res.validation_method = validation.method
               /\ res.fsrs_rating = score_to_fsrs_rating(validation.score)
               /\ res.next_review_in_days = reqs[r].card[1].fsrs_state.scheduled_days
               /\ LoggedBy(r)
               /\ LogOf(r).ai_score = validation.score
               /\ LogOf(r).validation_method = ValidationMethod_as_str(validation.method)
               /\ LogOf(r).fsrs_rating = res.fsrs_rating
               /\ "expected_answer" \in DOMAIN LogOf(r)
               /\ LogOf(r).expected_answer = reqs[r].card[1].answer

\* calls r and q reviewed the same card, each loading it before the other
\* persisted it, and both persisted it
LostUpdate(r, q) ==
    /\ r # q
    /\ reqs[r].card_id = reqs[q].card_id
    /\ HasStep(r, "update")
    /\ HasStep(q, "update")
    /\ reqs[r].loaded = reqs[q].loaded

\* C17: the card row is whatever the last update wrote (no lock, no version
\* check); when two submitReview calls both load the card before either
\* persists it and both complete, each has appended a review log entry and the
\* stored state is the last writer's, with reps one more than the loaded
\* state's, not two.
C17_LastWriteWins ==
    /\ \A c \in CardIds :
          last_write[c] # 0 =>
             cards[c][1].fsrs_state = reqs[last_write[c]].card[1].fsrs_state
    /\ \A r, q \in Reqs :
          (LostUpdate(r, q) /\ ReturnedOk(r) /\ ReturnedOk(q)) =>
             /\ LoggedBy(r)
             /\ LoggedBy(q)
             /\ last_write[reqs[r].card_id] \in {r, q} =>
                   cards[reqs[r].card_id][1].fsrs_state.reps =
                      reqs[r].loaded[1].fsrs_state.reps + 1

C17_Witness ==
    \E r, q \in Reqs :
        /\ LostUpdate(r, q)
        /\ ReturnedOk(r)
        /\ ReturnedOk(q)
        /\ LoggedBy(r)
        /\ LoggedBy(q)
        /\ reqs[r].fsrs_rating # reqs[q].fsrs_rating
        /\ last_write[reqs[r].card_id] = q
        /\ cards[reqs[r].card_id][1].fsrs_state.reps = 1

(***************************************************************************)
(* Cascading validator properties (SpecValidate)                           *)
(***************************************************************************)
ValidateDone == val.pc = "done"

NormalizedEqual ==
    to_lowercase(trim(val.expected_answer)) = to_lowercase(trim(val.user_answer))

\* the similarity the embedding step obtained (defined when the call succeeded)
Similarity == check_embedding_similarity(val.emb[1]).value[1]

EmbeddingSucceeded ==
    /\ val.emb # None
    /\ val.emb[1].kind = "ok"

EmbeddingFailed ==
    /\ val.emb # None
    /\ val.emb[1].kind = "error"

\* the step-by-step call returns what validate computes from the same answers
CascadeAgrees ==
    ValidateDone =>
        \E emb \in EmbeddingResponses, llm \in LlmReplies :
            /\ val.emb # None => emb = val.emb[1]
            /\ val.llm # None => llm = val.llm[1]
            /\ val.result = Some(OpenAIValidator_validate(val.expected_answer,
                                                          val.user_answer, emb, llm))

\* C14: when the expected answer and the user answer are equal after
\* trimming and lowercasing, validate returns score 1.0 with method Exact and
\* invokes neither the embedding nor the chat endpoint.
C14_ExactShortCircuit ==
    NormalizedEqual =>
        /\ val.embedding_calls = 0
        /\ val.llm_calls = 0
        /\ val.pc \in {"check_exact_match", "done"}
        /\ ValidateDone => val.result = Some(Ok(ValidationResult(100, "Exact")))

C14_Witness ==
    /\ ValidateDone
    /\ val.expected_answer = <<"a", " ">>
    /\ val.user_answer = <<" ", "A">>
    /\ val.result = Some(Ok(ValidationResult(100, "Exact")))
    /\ val.embedding_calls = 0
    /\ val.llm_calls = 0

\* the embeddings endpoint returned two vectors of one length, neither of
\* them zero, whose cosine is at least 0.85
CosineAtLeastThreshold ==
    /\ val.emb # None
    /\ val.emb[1].kind = "ok"
    /\ val.emb[1].vectors >= 2
    /\ val.emb[1].same_len
    /\ ~val.emb[1].zero_magnitude
    /\ FGe(val.emb[1].cosine, 85)

\* C15: when the answers are not an exact match and the embedding call
\* succeeds with cosine similarity >= 0.85, validate returns that similarity
\* with method Embedding and never invokes the chat endpoint.
C15_EmbeddingShortCircuit ==
    (~NormalizedEqual /\ CosineAtLeastThreshold) =>
        /\ ValidateDone
        /\ val.result = Some(Ok(ValidationResult(val.emb[1].cosine, "Embedding")))
        /\ val.embedding_calls = 1
        /\ val.llm_calls = 0

C15_Witness ==
    /\ ValidateDone
    /\ ~NormalizedEqual
    /\ val.emb = Some(EmbeddingCosine(85))
    /\ val.result = Some(Ok(ValidationResult(85, "Embedding")))
    /\ val.llm_calls = 0

\* C16: when the answers are not an exact match and the embedding call fails
\* or returns a similarity in [0.6, 0.85), validate does not fail on that
\* account: it invokes the chat endpoint exactly once and, if that call
\* succeeds, returns its score with method Llm.
C16_EmbeddingFallsThrough ==
    (/\ ~NormalizedEqual
     /\ \/ EmbeddingFailed
        \/ EmbeddingSucceeded /\ FGe(Similarity, 60) /\ ~FGe(Similarity, 85)) =>
        /\ val.pc \in {"check_llm_validation", "done"}
        /\ val.embedding_calls = 1
        /\ ValidateDone =>
              /\ val.llm_calls = 1
              /\ val.result[1].error # "embedding error"
              /\ val.result[1].ok = check_llm_validation(val.llm[1]).ok
              /\ val.result[1].ok =>
                    val.result = Some(Ok(ValidationResult(
                                    check_llm_validation(val.llm[1]).value[1], "Llm")))

C16_Witness ==
    /\ ValidateDone
    /\ val.emb = Some(EmbeddingError)
    /\ val.llm = Some(LlmScore(75))
    /\ val.llm_calls = 1
    /\ val.result = Some(Ok(ValidationResult(75, "Llm")))

(***************************************************************************)
(* Statistics Aggregator properties (SpecStats)                            *)
(***************************************************************************)
Quiescent == \A h \in Handlers : handlers[h].pc \in {"idle", "done"}

\* the user had no row before the first event was handled
StartedFromZero(u) == tally[u].row0 = None

\* C18: after any set of CardReviewed events for one user has been handled,
\* in any interleaving of the handlers' SELECT and UPDATE, the user's
\* days_studied equals the number of distinct dates on which one of those
\* reviews was handled.
C18_DaysStudiedDistinctDays ==
    \A u \in UserIds :
        (Quiescent /\ StartedFromZero(u) /\ user_stats[u] # None) =>
            user_stats[u][1].days_studied = Cardinality(tally[u].dates)

\* C19: for a user whose stats row already exists, handling k CardReviewed
\* events in any interleaving increases total_reviews by exactly k and
\* correct_reviews by exactly the number of those events with score >= 0.7;
\* no handler attempts to create the row.
C19_NoLostIncrement ==
    \A u \in UserIds :
        tally[u].row0 # None =>
            /\ user_stats[u] # None
            /\ user_stats[u][1].total_reviews =
                  tally[u].row0[1].total_reviews + tally[u].updates
            /\ user_stats[u][1].correct_reviews =
                  tally[u].row0[1].correct_reviews + tally[u].correct
            /\ \A h \in Handlers :
                  handlers[h].pc = "user_insert" => handlers[h].event.user_id # u

C19_Witness ==
    /\ Quiescent
    /\ tally["u1"].row0 = Some(UserStats_reviewed)
    /\ tally["u1"].updates = 2
    /\ tally["u1"].correct = 1
    /\ tally["u1"].overlapped
    /\ user_stats["u1"][1].total_reviews = 5
    /\ user_stats["u1"][1].correct_reviews = 3

\* C20: get_or_create of a stats row is idempotent under concurrent first
\* access: no caller fails on the row another caller has just created, and a
\* row exists once a caller has gone past get_or_create.
C20_GetOrCreateIdempotent ==
    \A h \in Handlers :
        /\ handlers[h].pc = "done" => handlers[h].result[1].error # "unique violation"
        /\ handlers[h].pc = "user_update" => user_stats[handlers[h].event.user_id] # None

\* a handler of a CardReviewed event that has not yet left the user's statistics
AtUserStats(h) == handlers[h].pc \in {"user_select", "user_insert", "user_update"}

\* C21: once the one CardReviewed event of a user who had no stats row has been
\* handled, the row exists with total_reviews = 1, days_studied = 1,
\* last_active_date = the clock's date when the event was handled, and
\* correct_reviews = 1 if the event's score >= 0.7, else 0.
C21_FirstReviewCreatesRow ==
    /\ \A h \in Handlers :
          AtUserStats(h) =>
              /\ handlers[h].is_correct = (handlers[h].event.score >= correct_threshold)
              /\ handlers[h].review_date <= clock
    /\ \A u \in UserIds :
          (StartedFromZero(u) /\ tally[u].updates = 1) =>
              /\ user_stats[u] # None
              /\ user_stats[u][1].total_reviews = 1
              /\ user_stats[u][1].days_studied = 1
              /\ user_stats[u][1].correct_reviews = tally[u].correct
              /\ tally[u].dates = {user_stats[u][1].last_active_date[1]}

C21_Witness ==
    /\ Quiescent
    /\ StartedFromZero("u1")
    /\ tally["u1"].updates = 1
    /\ user_stats["u1"] = Some([total_reviews |-> 1,
                                correct_reviews |-> 0,
                                days_studied |-> 1,
                                last_active_date |-> Some(2)])

\* handler h returns Ok(()) from the statement at pc in this step
ReturnsOkFrom(h, pc) ==
    /\ handlers[h].pc = pc
    /\ handlers'[h].pc = "done"
    /\ handlers'[h].result[1].ok

\* the deck's row before the step, a missing row read as the zeroed one
DeckRowBefore(d) == IF deck_stats[d] = None THEN DeckStats_new("u1") ELSE deck_stats[d][1]

\* C22: handling a CardReviewed event for a card of a deck leaves the deck's
\* stats row in existence (created if it was missing) with total_reviews one
\* higher, correct_reviews higher by one for a correct review and days_studied
\* by at most one, the user's stats untouched by that step; for a card with no
\* deck the handler returns without changing any deck's stats.
C22_DeckStatsUpdated ==
    [][\A h \in Handlers :
          /\ ReturnsOkFrom(h, "deck_update") =>
                LET d == handlers[h].deck_id[1]
                IN /\ deck_stats'[d] # None
                   /\ deck_stats'[d][1].total_reviews = DeckRowBefore(d).total_reviews + 1
                   /\ deck_stats'[d][1].correct_reviews =
                         DeckRowBefore(d).correct_reviews + (IF handlers[h].is_correct THEN 1 ELSE 0)
                   /\ deck_stats'[d][1].days_studied - DeckRowBefore(d).days_studied \in {0, 1}
                   /\ deck_stats'[d][1].last_active_date = Some(handlers[h].review_date)
                   /\ user_stats' = user_stats
          /\ ReturnsOkFrom(h, "card_find") => deck_stats' = deck_stats
      ]_vars

\* C23: each handled CardCreated event for a card of a deck leaves the deck's
\* total_cards exactly one higher, the same event handled twice two higher; a
\* CardCreated event for a card with no deck changes no deck's stats.
C23_CardCreatedIncrements ==
    [][\A h \in Handlers :
          /\ ReturnsOkFrom(h, "deck_increment") =>
                LET d == handlers[h].deck_id[1]
                IN /\ deck_stats'[d] # None
                   /\ deck_stats'[d][1].total_cards = DeckRowBefore(d).total_cards + 1
          /\ (ReturnsOkFrom(h, "card_find") /\ handlers[h].event.type = "CardCreated") =>
                /\ deck_stats' = deck_stats
                /\ user_stats' = user_stats
      ]_vars

(***************************************************************************)
(* Bulk import and embedding worker properties (SpecImport, FairImport)    *)
(***************************************************************************)
\* the import returned Ok after inserting at least one card
ImportSucceeded ==
    /\ imp.pc = "done"
    /\ imp.result[1].ok
    /\ Len(imp.cards) >= 1

\* C24: after a successful bulk import of N >= 1 cards into a deck, the
\* deck's total_cards (0 before the import) is N, one bulk-add call was made,
\* no event was published, and the result reports cards_imported = N, the
\* N cards being stored.
C24_BulkImportCounts ==
    ImportSucceeded =>
        /\ imp.result[1].value[1].cards_imported = Len(imp.cards)
        /\ \A i \in 1..Len(imp.cards) : cards[imp.cards[i].id] # None
        /\ imp.add_calls = 1
        /\ events = <<>>
        /\ deck_stats[imp.deck_id] # None
        /\ deck_stats[imp.deck_id][1].total_cards = Len(imp.cards)

\* the pairs the worker is through with
Processed == 1..(imp.worker.next - 1)

\* the update_embedding calls made for pair i
UpdateCallsFor(i) ==
    {k \in 1..Len(imp.worker.update_calls) :
        imp.worker.update_calls[k][1] = imp.worker.tasks[i][1]}

WarningsFor(i) ==
    {k \in 1..Len(imp.worker.warnings) : imp.worker.warnings[k] = imp.worker.tasks[i][1]}

\* one generate_embedding call per pair reached, in the order of the list;
\* a pair whose call failed has a warning and no store call; a pair whose
\* call succeeded has one store call with the embedding of its text, which
\* the card holds unless that call failed, in which case a warning is logged
WorkerOncePerPair ==
    LET w == imp.worker
        reached == IF w.pc = "update_embedding" THEN w.next ELSE w.next - 1
    IN /\ Len(w.generate_calls) = reached
       /\ \A i \in 1..reached : w.generate_calls[i][1] = w.tasks[i][1]
       /\ \A i \in Processed :
             LET id == w.tasks[i][1]
                 embedding == generate_embedding(w.tasks[i][2])
             IN IF w.generate_calls[i][2]
                THEN /\ Cardinality(UpdateCallsFor(i)) = 1
                     /\ \A k \in UpdateCallsFor(i) :
                           /\ w.update_calls[k][2] = embedding
                           /\ IF w.update_calls[k][3]
                              THEN /\ cards[id][1].answer_embedding = Some(embedding)
                                   /\ WarningsFor(i) = {}
                              ELSE Cardinality(WarningsFor(i)) = 1
                ELSE /\ UpdateCallsFor(i) = {}
                     /\ Cardinality(WarningsFor(i)) = 1
       /\ w.pc = "done" => w.next = Len(w.tasks) + 1

\* C27: the embedding worker calls the embedding service exactly once per
\* pair of its list and then ends; a pair whose embedding call or store write
\* fails is logged and passed over without retry while the pairs after it
\* are still processed, and the embedding of every pair whose embedding call
\* succeeds is written to its card (stored unless the write itself fails).
C27_WorkerOncePerPairThenEnds ==
    /\ []WorkerOncePerPair
    /\ (imp.worker.pc # "idle") ~> (imp.worker.pc = "done")

\* the write of the first pair's embedding failed, the second pair was
\* embedded and stored
C27_Witness ==
    /\ imp.worker.pc = "done"
    /\ Len(imp.worker.tasks) = 2
    /\ imp.worker.generate_calls = <<<<"c1", TRUE>>, <<"c2", TRUE>>>>
    /\ imp.worker.warnings = <<"c1">>
    /\ cards["c1"][1].answer_embedding = None
    /\ cards["c2"][1].answer_embedding = Some(generate_embedding(<<"b">>))

\* C28: the import returns without waiting for the worker it spawned: it
\* can return whatever the worker's progress, its result is the count of
\* cards inserted and of lines skipped, without any handle on the worker,
\* and does not change once given, whatever the embedding calls do after; a
\* card whose embedding failed is stored as it was inserted.
C28_ImportDoesNotWait ==
    /\ [](/\ imp.pc = "return" => ENABLED ImportReturn
          /\ ImportSucceeded =>
                imp.result[1].value[1] =
                   [cards_imported |-> Len(imp.cards), cards_skipped |-> imp.skipped]
          /\ \A i \in Processed :
                WarningsFor(i) # {} => cards[imp.worker.tasks[i][1]] = Some(imp.cards[i]))
    /\ [][imp.pc = "done" => imp'.pc = "done" /\ imp'.result = imp.result]_vars

\* the import has returned Ok before the worker made its first call
C28_Witness ==
    /\ ImportSucceeded
    /\ imp.worker.pc = "generate_embedding"
    /\ imp.worker.generate_calls = <<>>
    /\ Len(imp.worker.tasks) = 2

(***************************************************************************)
(* Event bus properties (SpecBus)                                          *)
(***************************************************************************)
\* the handler calls made for the i-th published event to handler s
CallsFor(i, s) ==
    {k \in 1..Len(bus.calls) : bus.calls[k].event = events[i] /\ bus.calls[k].handler = s}

\* handler s was registered when the i-th event was published
RegisteredFor(i, s) == bus.registered_at[s] >= 0 /\ bus.registered_at[s] < i

\* the position of handler s in the registry
PositionOf(s) == CHOOSE j \in 1..Len(bus.subscribers) : bus.subscribers[j] = s

NonOwner(r) ==
    /\ reqs[r].pc # "idle"
    /\ reqs[r].stored_before # None
    /\ reqs[r].stored_before[1].user_id # reqs[r].user_id

\* C29: execute checks no ownership: a call for a stored card is refused
\* only by a failing store or validator, whatever user id it carries; its
\* update writes the new schedule to the card, which keeps its owner, and its
\* log entry and its CardReviewed event carry the user id of the call.
C29_NoOwnershipCheck ==
    \A r \in Reqs :
        /\ NotFoundReturned(r) => reqs[r].stored_before = None
        /\ (ReturnedError(r) /\ reqs[r].stored_before # None) =>
              reqs[r].result[1].error \in {"database error", "openai error", "No response from LLM"}
        /\ (HasStep(r, "update") /\ last_write[reqs[r].card_id] = r) =>
              /\ cards[reqs[r].card_id][1].fsrs_state = reqs[r].card[1].fsrs_state
              /\ cards[reqs[r].card_id][1].fsrs_state.reps = reqs[r].loaded[1].fsrs_state.reps + 1
              /\ cards[reqs[r].card_id][1].user_id = reqs[r].stored_before[1].user_id
        /\ LoggedBy(r) =>
              /\ LogOf(r).user_id = reqs[r].user_id
              /\ LogOf(r).card_id = reqs[r].card_id
        /\ \A i \in 1..Len(events) :
              events[i].req = r =>
                 /\ events[i].user_id = reqs[r].user_id
                 /\ events[i].card_id = reqs[r].card_id

\* a review of u1's card c1 submitted with user id u2 has gone through
C29_Witness ==
    \E r \in Reqs :
        /\ NonOwner(r)
        /\ ReturnedOk(r)
        /\ last_write["c1"] = r
        /\ cards["c1"][1].fsrs_state.reps = 1
        /\ cards["c1"][1].user_id = "u1"
        /\ LogOf(r).user_id = "u2"
        /\ \E i \in 1..Len(events) : events[i].req = r /\ events[i].user_id = "u2"

\* C30: a review of an absent card is answered with a client error status
\* (4xx, not found), the failure of the validator or of a store with a
\* server error status (5xx).
C30_NotFoundIsClientError ==
    \A r \in Reqs :
        /\ NotFoundReturned(r) => submit_intelligent_review(reqs[r].result[1]) \in 400..499
        /\ (ReturnedError(r) /\ ~NotFoundReturned(r)) =>
              submit_intelligent_review(reqs[r].result[1]) \in 500..599

(***************************************************************************)
(* Fallback validator properties (SpecFallback)                            *)
(***************************************************************************)
ExpectedWords == split_whitespace(to_lowercase(trim(val.expected_answer)))
ActualWords == split_whitespace(to_lowercase(trim(val.user_answer)))

\* C31: the fallback validator always returns Ok and calls neither endpoint;
\* its score is 1.0 when the trimmed, lowercased answers are equal, otherwise
\* |A n B| / |A u B| for the word sets A and B of the normalized answers, a
\* value in [0, 1]; the method is Exact in both cases.
C31_FallbackJaccard ==
    ValidateDone =>
        LET result == val.result[1]
            score == result.value[1].score
        IN /\ result.ok
           /\ val.embedding_calls = 0 /\ val.llm_calls = 0
           /\ result.value[1].method = "Exact"
           /\ score[2] > 0 /\ 0 <= score[1] /\ score[1] <= 100 * score[2]
           /\ IF NormalizedEqual
              THEN score = <<100, 1>>
              ELSE /\ ExpectedWords \cup ActualWords # {}
                   /\ score[1] * Cardinality(ExpectedWords \cup ActualWords) =
                         100 * Cardinality(ExpectedWords \cap ActualWords) * score[2]

\* "a b" against "b": one word of two in common
C31_Witness ==
    /\ ValidateDone
    /\ ~NormalizedEqual
    /\ Cardinality(ExpectedWords) = 2
    /\ Cardinality(ExpectedWords \cap ActualWords) = 1
    /\ val.result[1].value[1].score = <<50, 1>>

(***************************************************************************)
(* Chat endpoint score (SpecValidate)                                      *)
(***************************************************************************)
\* C32: when the chat endpoint replies with content, validate returns Ok
\* with method Llm and the reply parsed as a number and brought into [0, 1];
\* a reply that is no number gives score 0.0, which is graded Again.
C32_LlmScoreParsedAndClamped ==
    (ValidateDone /\ val.llm # None /\ val.llm[1].kind = "ok") =>
        LET reply == val.llm[1]
            result == val.result[1]
        IN /\ result.ok
           /\ result.value[1].method = "Llm"
           /\ result.value[1].score \in 0..100
           /\ IF reply.numeric
              THEN /\ reply.value \in 0..100 => result.value[1].score = reply.value
                   /\ (reply.value # NaN /\ reply.value < 0) => result.value[1].score = 0
                   /\ (reply.value # NaN /\ reply.value > 100) => result.value[1].score = 100
              ELSE /\ result.value[1].score = 0
                   /\ score_to_fsrs_rating(result.value[1].score) = 1

(***************************************************************************)
(* Deleting a card (SpecDelete)                                            *)
(***************************************************************************)
DeleteDone(d) == del[d].pc = "done" /\ del[d].found # None

DeleteReturns(d) == del[d].pc # "done" /\ del'[d].pc = "done"

\* C33: deleting a card is guarded by ownership.  A request whose find_by_id
\* returned a card of another user ends with AuthorizationError, one whose
\* find_by_id returned no card ends with NotFound, and the step in which
\* either returns leaves the card store as it was; a request by the owner
\* ends with Ok unless the delete call failed, and when it ends with Ok the
\* card is no longer stored.  The card store changes only in the delete call
\* of a request by the card's owner.
C33_DeleteGuardedByOwnership ==
    /\ [](\A d \in DeleteReqs :
            DeleteDone(d) =>
               LET row == del[d].found[1]
                   result == del[d].result[1]
               IN /\ row = None => result = Err("NotFound")
                  /\ (row # None /\ row[1].user_id # del[d].user_id) =>
                        result = Err("AuthorizationError")
                  /\ (row # None /\ row[1].user_id = del[d].user_id) =>
                        /\ result \in {Ok("unit"), Err("DatabaseError")}
                        /\ result.ok => cards[del[d].card_id] = None
                  /\ result.ok => (row # None /\ row[1].user_id = del[d].user_id))
    /\ [][/\ \A d \in DeleteReqs :
               (DeleteReturns(d) /\ ~del'[d].result[1].ok) => cards' = cards
          /\ cards' # cards =>
               \E d \in DeleteReqs :
                  /\ DeleteReturns(d)
                  /\ del'[d].result[1].ok
                  /\ cards[del[d].card_id] # None
                  /\ cards[del[d].card_id][1].user_id = del[d].user_id
                  /\ cards' = [cards EXCEPT ![del[d].card_id] = None]]_vars

\* the owner's request removed c1, and a request by u2 for the stored card
\* was refused
C33_Witness ==
    /\ cards["c1"] = None
    /\ \E d \in DeleteReqs :
          /\ del[d].pc = "done"
          /\ del[d].user_id = "u1"
          /\ del[d].result = Some(Ok("unit"))
    /\ \E d \in DeleteReqs :
          /\ del[d].pc = "done"
          /\ del[d].user_id = "u2"
          /\ del[d].card_id = "c1"
          /\ del[d].result = Some(Err("AuthorizationError"))

(***************************************************************************)
(* Events, review logs and repetitions of one card (Spec)                  *)
(***************************************************************************)
EventsPublishedFor(c) == Cardinality({i \in 1..Len(events) : events[i].card_id = c})

ReviewLogsFor(c) == Cardinality({i \in 1..Len(review_logs) : review_logs[i].card_id = c})

StoredRepetitions(c) == IF cards[c] = None THEN 0 ELSE cards[c][1].fsrs_state.reps

\* no submitReview call started while another call for the same card was in
\* progress
ReviewsNotConcurrent == \A r \in Reqs : ~reqs[r].concurrent

StoreCallFailed == \E r \in Reqs : reqs[r].result = Some(Err("database error"))

\* C34: as long as reviews of a card have never been concurrent, the events
\* published for a card are at most its review log rows, which are at most
\* its stored repetitions; when no call is in progress and no store call
\* has failed the three are equal.
C34_EventsLogsRepetitions ==
    ReviewsNotConcurrent =>
        \A c \in CardIds :
           /\ EventsPublishedFor(c) <= ReviewLogsFor(c)
           /\ ReviewLogsFor(c) <= StoredRepetitions(c)
           /\ (InFlight = {} /\ ~StoreCallFailed) =>
                 /\ EventsPublishedFor(c) = ReviewLogsFor(c)
                 /\ ReviewLogsFor(c) = StoredRepetitions(c)

\* two reviews of c1 completed one after the other, and one whose review
\* log insert failed after the card was saved
C34_Witness ==
    /\ InFlight = {}
    /\ ReviewsNotConcurrent
    /\ \/ /\ StoredRepetitions("c1") = 2
          /\ ReviewLogsFor("c1") = 2
          /\ EventsPublishedFor("c1") = 2
       \/ /\ StoreCallFailed
          /\ StoredRepetitions("c1") = 2
          /\ ReviewLogsFor("c1") = 1
          /\ EventsPublishedFor("c1") = 1

(***************************************************************************)
(* Review and embedding backfill on one card (SpecBackfill)                *)
(***************************************************************************)
\* the embeddings the worker's update_embedding calls stored for card c
EmbeddingsStoredFor(c) ==
    {imp.worker.update_calls[i][2] :
        i \in {j \in 1..Len(imp.worker.update_calls) :
                  /\ imp.worker.update_calls[j][1] = c
                  /\ imp.worker.update_calls[j][3]}}

WorkerStep == imp'.worker # imp.worker

\* C35: the review's card update and the worker's embedding write touch
\* disjoint stored fields.  An embedding the worker stored for a card stays
\* the card's stored embedding whatever the review does afterwards; no step
\* other than the worker's changes or clears a stored card's embedding; and
\* a step of the worker leaves fsrs_state, question and answer of every
\* stored card as they were.
C35_ReviewAndBackfillDisjoint ==
    /\ [](\A c \in CardIds :
            \A e \in EmbeddingsStoredFor(c) :
               cards[c] # None /\ cards[c][1].answer_embedding = Some(e))
    /\ [][\A c \in CardIds :
             cards[c] # None =>
                /\ cards'[c] # None
                /\ ~WorkerStep =>
                      cards'[c][1].answer_embedding = cards[c][1].answer_embedding
                /\ WorkerStep =>
                      /\ cards'[c][1].fsrs_state = cards[c][1].fsrs_state
                      /\ cards'[c][1].question = cards[c][1].question
                      /\ cards'[c][1].answer = cards[c][1].answer]_vars

\* the review loaded c1 before its embedding was written, the worker stored
\* the embedding, the review saved the card, and the row holds both
C35_Witness ==
    /\ reqs[1].card_id = "c1"
    /\ reqs[1].loaded # None
    /\ reqs[1].loaded[1].answer_embedding = None
    /\ last_write["c1"] = 1
    /\ EmbeddingsStoredFor("c1") # {}
    /\ cards["c1"] # None
    /\ cards["c1"][1].answer_embedding # None
    /\ cards["c1"][1].fsrs_state.reps = 1

(***************************************************************************)
(* Correct reviews and grades (SpecScore)                                  *)
(***************************************************************************)
\* C36: for every score, the statistics handler's test score >= 0.7 holds
\* exactly when the rating score_to_fsrs_rating returned is Good (3) or
\* Easy (4); a score that is not a number is neither correct nor Good.
C36_CorrectIffGoodOrEasy ==
    fn_pc = "done" => (FGe(in_score, correct_threshold) <=> out_rating >= 3)

\* the borderline score 0.7 was graded Good and counts as correct
C36_Witness ==
    /\ fn_pc = "done"
    /\ in_score = correct_threshold
    /\ out_rating = 3

(***************************************************************************)
(* Low embedding similarity (SpecValidate)                                 *)
(***************************************************************************)
\* the embeddings endpoint answered, with fewer than two vectors or with
\* vectors whose similarity is below 0.6
SimilarityBelowBorderline ==
    /\ val.emb # None
    /\ val.emb[1].kind = "ok"
    /\ \/ val.emb[1].vectors < 2
       \/ ~val.emb[1].same_len
       \/ val.emb[1].zero_magnitude
       \/ val.emb[1].cosine # NaN /\ val.emb[1].cosine < 60

\* C37: when the answers are not an exact match and the embedding similarity
\* is below 0.6, or the response holds fewer than two vectors, the embedding
\* step does not produce the result: the chat endpoint is asked once and the
\* call ends as that step ends, with its score and method Llm when it
\* succeeds.  Method Embedding is returned only with a score >= 0.85, which
\* score_to_fsrs_rating grades Good or Easy.
C37_LowSimilarityGoesToLlm ==
    /\ SimilarityBelowBorderline =>
          /\ val.pc \in {"check_llm_validation", "done"}
          /\ ValidateDone =>
                /\ val.llm_calls = 1
                /\ val.llm # None
                /\ val.result[1].ok <=> val.llm[1].kind = "ok"
                /\ val.result[1].ok => val.result[1].value[1].method = "Llm"
                /\ (val.llm[1].kind = "ok" /\ val.llm[1].numeric /\ val.llm[1].value \in 0..100) =>
                      val.result = Some(Ok(ValidationResult(val.llm[1].value, "Llm")))
    /\ (ValidateDone /\ val.result[1].ok /\ val.result[1].value[1].method = "Embedding") =>
          /\ val.result[1].value[1].score # NaN
          /\ val.result[1].value[1].score >= 85
          /\ score_to_fsrs_rating(val.result[1].value[1].score) >= 3

\* a similarity of 0.59 was passed over and the chat endpoint's 0.75 returned
C37_Witness ==
    /\ ValidateDone
    /\ val.emb = Some(EmbeddingCosine(59))
    /\ val.llm = Some(LlmScore(75))
    /\ val.llm_calls = 1
    /\ val.result = Some(Ok(ValidationResult(75, "Llm")))

(***************************************************************************)
(* Monotone scheduling (SpecGradings)                                      *)
(***************************************************************************)
\* a <= b for fractions n/d with n >= 0 and d > 0, compared by whole parts
\* and then by the reciprocals of the remainders, so that no product is formed
RECURSIVE FractionLe(_, _)
FractionLe(a, b) ==
    IF a[1] \div a[2] # b[1] \div b[2] THEN a[1] \div a[2] < b[1] \div b[2]
    ELSE IF a[1] % a[2] = 0 THEN TRUE
    ELSE IF b[1] % b[2] = 0 THEN FALSE
    ELSE FractionLe(<<b[2], b[1] % b[2]>>, <<a[2], a[1] % a[2]>>)

\* C38: for every state a card reaches from a new card by gradings, a better
\* grade never schedules the card sooner nor leaves it less stable:
\* scheduled_days and stability of update_fsrs_state(s, g) are at most those
\* of update_fsrs_state(s, g + 1), for g = 1, 2, 3.
C38_SchedulerMonotoneInGrade ==
    \A g \in 1..3 :
       LET worse == update_fsrs_state(card_fsrs, g)
           better == update_fsrs_state(card_fsrs, g + 1)
       IN /\ worse.scheduled_days <= better.scheduled_days
          /\ FractionLe(worse.stability, better.stability)

\* a card whose stability sank to the floor 0.1 after four Again gradings,
\* where Again keeps 0.1 and Hard gives 0.12
C38_Witness ==
    /\ gradings = <<1, 1, 1, 1>>
    /\ card_fsrs.stability = <<1, 10>>
    /\ update_fsrs_state(card_fsrs, 1).stability = <<1, 10>>
    /\ update_fsrs_state(card_fsrs, 2).stability = <<3, 25>>

(***************************************************************************)
(* Consistency of the statistics rows (SpecStats)                          *)
(***************************************************************************)
StatsRowConsistent(row) ==
    /\ 0 <= row.correct_reviews
    /\ row.correct_reviews <= row.total_reviews
    /\ row.days_studied <= row.total_reviews
    /\ row.total_reviews >= 1 =>
          /\ row.days_studied >= 1
          /\ row.last_active_date # None

StatsRowNotDecreased(before, after) ==
    before # None =>
       /\ after # None
       /\ after[1].total_reviews >= before[1].total_reviews
       /\ after[1].correct_reviews >= before[1].correct_reviews
       /\ after[1].days_studied >= before[1].days_studied

\* C39: in every reachable state, under any interleaving of the handlers,
\* each user and deck statistics row has 0 <= correct_reviews <=
\* total_reviews and days_studied <= total_reviews, with days_studied >= 1
\* and last_active_date set whenever total_reviews >= 1; and no step
\* decreases total_reviews, correct_reviews or days_studied of a row.
C39_StatsRowsConsistent ==
    /\ [](/\ \A u \in UserIds : user_stats[u] # None => StatsRowConsistent(user_stats[u][1])
          /\ \A d \in DeckIds : deck_stats[d] # None => StatsRowConsistent(deck_stats[d][1]))
    /\ [][/\ \A u \in UserIds : StatsRowNotDecreased(user_stats[u], user_stats'[u])
          /\ \A d \in DeckIds : StatsRowNotDecreased(deck_stats[d], deck_stats'[d])]_vars

\* two handlers whose updates interleaved have both been applied to a row
\* that was created by the first of them, and the deck row was updated too
C39_Witness ==
    /\ user_stats["u1"] # None
    /\ tally["u1"].row0 = None
    /\ tally["u1"].overlapped
    /\ user_stats["u1"][1].total_reviews = 2
    /\ deck_stats["d1"] # None
    /\ deck_stats["d1"][1].total_reviews >= 1

(***************************************************************************)
(* Failures of a bulk import (SpecImport)                                  *)
(***************************************************************************)
\* the deck has a row, the bulk-add call for N >= 1 inserted cards was made
\* and the row's total_cards is still 0: the call failed
BulkAddFailed ==
    /\ imp.add_calls = 1
    /\ Len(imp.cards) >= 1
    /\ deck_stats[imp.deck_id] # None
    /\ deck_stats[imp.deck_id][1].total_cards = 0

\* the import is over for N >= 1 parsed cards without ids from bulk_create:
\* the bulk insert failed
BulkInsertFailed ==
    /\ imp.pc = "done"
    /\ Len(imp.cards) >= 1
    /\ imp.card_ids = <<>>

WorkerNotSpawned == imp.worker = IdleWorker

\* C40: if the bulk-add to the deck's card count fails after the cards were
\* inserted, the import returns an error, the inserted cards stay stored,
\* the deck's total_cards is not increased and no worker is spawned; if the
\* bulk insert fails, the import returns an error, no card is stored, and
\* neither the bulk-add call nor the worker happens.  A worker runs only
\* after an insert and a bulk-add call that both succeeded.
C40_ImportFailures ==
    /\ BulkAddFailed =>
          /\ imp.pc = "done"
          /\ ~imp.result[1].ok
          /\ \A i \in 1..Len(imp.cards) : cards[imp.cards[i].id] = Some(imp.cards[i])
          /\ WorkerNotSpawned
    /\ BulkInsertFailed =>
          /\ ~imp.result[1].ok
          /\ \A c \in CardIds : cards[c] = None
          /\ imp.add_calls = 0
          /\ deck_stats[imp.deck_id] # None => deck_stats[imp.deck_id][1].total_cards = 0
          /\ WorkerNotSpawned
    /\ ~WorkerNotSpawned =>
          /\ imp.add_calls = 1
          /\ imp.card_ids # <<>>
          /\ deck_stats[imp.deck_id] # None =>
                deck_stats[imp.deck_id][1].total_cards = Len(imp.cards)

\* two cards were inserted and the bulk-add failed: the import ended with an
\* error, the cards are stored, the deck counts none, no worker runs
C40_Witness ==
    /\ BulkAddFailed
    /\ imp.pc = "done"
    /\ imp.result = Some(Err("database error"))
    /\ Len(imp.cards) = 2
    /\ cards["c1"] # None
    /\ cards["c2"] # None
    /\ WorkerNotSpawned

====
